---- MODULE Spec2Model ----
(***************************************************************************)
(* The multi-vendor streaming query engine of src-tauri/src/provider:      *)
(* the SSE / NDJSON frame decoder, the vendor response parsers and the     *)
(* three query entry points with their streaming -> non-streaming          *)
(* fallback.                                                               *)
(*                                                                         *)
(* Text is modelled as sequences of characters (one-character strings).    *)
(* A few characters of the model stand for a run of characters of the      *)
(* real text that holds no whitespace, no line ending and no "data:"       *)
(* (the member lists of the JSON documents, see JsonTable): the decoder    *)
(* never looks inside such a run, so a chunk boundary inside it acts like  *)
(* one right before it.                                                    *)
(***************************************************************************)
EXTENDS Integers, Sequences, FiniteSets, TLC

LF == "\n"
CR == "\r"
SP == " "

\* char::is_whitespace, on the characters of the model
WhiteSpace == {SP, LF, CR}

DataPrefix == <<"d", "a", "t", "a", ":">>
DoneMarker == <<"[", "D", "O", "N", "E", "]">>

\* Option<T>: None is the empty sequence, Some(x) is <<x>>
None == <<>>
Some(x) == <<x>>
IsSome(o) == Len(o) = 1
IsNone(o) == Len(o) = 0

----------------------------------------------------------------------------
(* str helpers of the Rust standard library *)

Drop(s, n) == SubSeq(s, n + 1, Len(s))

StartsWith(s, p) == Len(s) >= Len(p) /\ SubSeq(s, 1, Len(p)) = p

RECURSIVE FindFrom(_, _, _)
FindFrom(s, p, i) ==
    IF i + Len(p) - 1 > Len(s) THEN 0
    ELSE IF SubSeq(s, i, i + Len(p) - 1) = p THEN i
    ELSE FindFrom(s, p, i + 1)

\* str::find: the index of the first occurrence of p in s, 0 for none
Find(s, p) == FindFrom(s, p, 1)

Contains(s, p) == Find(s, p) # 0

RECURSIVE TrimStart(_)
TrimStart(s) ==
    IF Len(s) > 0 /\ Head(s) \in WhiteSpace THEN TrimStart(Tail(s)) ELSE s

RECURSIVE TrimEnd(_)
TrimEnd(s) ==
    IF Len(s) > 0 /\ s[Len(s)] \in WhiteSpace
    THEN TrimEnd(SubSeq(s, 1, Len(s) - 1))
    ELSE s

Trim(s) == TrimStart(TrimEnd(s))

\* str::lines: the lines of s without their terminators; a final empty
\* line is not yielded
RECURSIVE Lines(_)
Lines(s) ==
    IF Len(s) = 0 THEN <<>>
    ELSE LET i == Find(s, <<LF>>)
         IN  IF i = 0 THEN <<s>>
             ELSE <<SubSeq(s, 1, i - 1)>> \o Lines(Drop(s, i))

\* [String]::join("\n")
RECURSIVE JoinLines(_)
JoinLines(ls) ==
    IF Len(ls) = 0 THEN <<>>
    ELSE IF Len(ls) = 1 THEN ls[1]
    ELSE ls[1] \o <<LF>> \o JoinLines(Tail(ls))

RECURSIVE Flatten(_)
Flatten(ss) == IF Len(ss) = 0 THEN <<>> ELSE Head(ss) \o Flatten(Tail(ss))

----------------------------------------------------------------------------
(* Frame Decoder *)

RECURSIVE ReplaceCrLf(_)
ReplaceCrLf(s) ==
    IF Len(s) = 0 THEN <<>>
    ELSE IF Len(s) >= 2 /\ s[1] = CR /\ s[2] = LF
         THEN <<LF>> \o ReplaceCrLf(Drop(s, 2))
         ELSE <<s[1]>> \o ReplaceCrLf(Tail(s))

ReplaceCr(s) == [i \in 1..Len(s) |-> IF s[i] = CR THEN LF ELSE s[i]]

\* chunk_text.replace("\r\n", "\n").replace('\r', "\n"), applied to each
\* chunk on its own
normalized(chunk_text) == ReplaceCr(ReplaceCrLf(chunk_text))

RECURSIVE data_lines(_)
data_lines(ls) ==
    IF Len(ls) = 0 THEN <<>>
    ELSE LET line == TrimEnd(Head(ls))
         IN  (IF StartsWith(line, DataPrefix)
              THEN <<TrimStart(Drop(line, Len(DataPrefix)))>>
              ELSE <<>>) \o data_lines(Tail(ls))

\* [frames, buffer]: the frames taken and what stays in the buffer
RECURSIVE take_sse_frames(_)
take_sse_frames(buffer) ==
    LET delim_idx == Find(buffer, <<LF, LF>>)
    IN  IF delim_idx = 0 THEN [frames |-> <<>>, buffer |-> buffer]
        ELSE LET block == SubSeq(buffer, 1, delim_idx - 1)
                 dl    == data_lines(Lines(block))
                 rest  == take_sse_frames(Drop(buffer, delim_idx + 1))
             IN  [frames |-> (IF Len(dl) > 0 THEN <<JoinLines(dl)>> ELSE <<>>)
                                 \o rest.frames,
                  buffer |-> rest.buffer]

ndjson_keeps(line) ==
    IF Len(line) = 0 THEN FALSE
    ELSE IF line = DoneMarker THEN TRUE
    ELSE IF StartsWith(line, DataPrefix) THEN FALSE
    ELSE Head(line) = "{" \/ Head(line) = "["

RECURSIVE take_ndjson_lines(_)
take_ndjson_lines(buffer) ==
    LET newline_idx == Find(buffer, <<LF>>)
    IN  IF newline_idx = 0 THEN [frames |-> <<>>, buffer |-> buffer]
        ELSE LET line == Trim(SubSeq(buffer, 1, newline_idx - 1))
                 rest == take_ndjson_lines(Drop(buffer, newline_idx))
             IN  [frames |-> (IF ndjson_keeps(line) THEN <<line>> ELSE <<>>)
                                 \o rest.frames,
                  buffer |-> rest.buffer]

----------------------------------------------------------------------------
(* serde_json::Value.  A value is [k |-> kind, v |-> payload]: an object is *)
(* a record of member values, an array a sequence, a string a sequence of  *)
(* characters.                                                             *)

JObj(members) == [k |-> "obj", v |-> members]
JArr(items)   == [k |-> "arr", v |-> items]
JStr(chars)   == [k |-> "str", v |-> chars]
JNum(n)       == [k |-> "num", v |-> n]

\* Value::get(key)
Get(value, key) ==
    IF value.k = "obj"
    THEN (IF key \in DOMAIN value.v THEN Some(value.v[key]) ELSE None)
    ELSE None

as_array(value) == IF value.k = "arr" THEN Some(value.v) ELSE None
as_str(value)   == IF value.k = "str" THEN Some(value.v) ELSE None
first(items)    == IF Len(items) > 0 THEN Some(items[1]) ELSE None

\* Option::and_then
AndThen(o, F(_)) == IF IsSome(o) THEN F(o[1]) ELSE None

GetIn(o, key) == AndThen(o, LAMBDA x : Get(x, key))
FirstIn(o)    == AndThen(AndThen(o, as_array), first)
StrIn(o)      == AndThen(o, as_str)

\* .map(str::trim).filter(|s| !s.is_empty())
TrimmedNonEmpty(o) ==
    IF IsSome(o) /\ Len(Trim(o[1])) > 0 THEN Some(Trim(o[1])) ELSE None

\* .filter(|s| !s.is_empty())
NonEmpty(o) == IF IsSome(o) /\ Len(o[1]) > 0 THEN o ELSE None

----------------------------------------------------------------------------
(* Vendor Response Parser *)

ProviderTypes == {"OpenAI", "Anthropic", "Google", "Custom", "Glm", "Volcengine"}

parse_openai_like_text(body) ==
    TrimmedNonEmpty(StrIn(GetIn(GetIn(FirstIn(Get(body, "choices")),
                                      "message"), "content")))

\* parts.iter().filter_map(|part| part.get("text").and_then(|v| v.as_str()))
RECURSIVE part_texts(_)
part_texts(parts) ==
    IF Len(parts) = 0 THEN <<>>
    ELSE LET t == StrIn(Get(Head(parts), "text"))
         IN  (IF IsSome(t) THEN t ELSE <<>>) \o part_texts(Tail(parts))

\* `if let Some(parts) = content.as_array()`: the joined texts of the parts
parts_text(parts) ==
    IF IsSome(parts) THEN NonEmpty(Some(Flatten(part_texts(parts[1])))) ELSE None

\* `if let Some(content) = delta.get("content")`: a non-empty string, or
\* else the non-empty join of an array of parts
content_text(content) ==
    IF IsSome(NonEmpty(as_str(content))) THEN as_str(content)
    ELSE parts_text(as_array(content))

parse_openai_delta_text(body) ==
    AndThen(GetIn(GetIn(FirstIn(Get(body, "choices")), "delta"), "content"),
            content_text)

OrElse(o, alternative) == IF IsSome(o) THEN o ELSE alternative

\* variant: only the output_text member is read
parse_responses_text_flat(body) ==
    TrimmedNonEmpty(StrIn(Get(body, "output_text")))

parse_responses_text(body) ==
    OrElse(TrimmedNonEmpty(StrIn(Get(body, "output_text"))),
           TrimmedNonEmpty(StrIn(GetIn(FirstIn(GetIn(FirstIn(
               Get(body, "output")), "content")), "text"))))

parse_anthropic_text(body) ==
    TrimmedNonEmpty(StrIn(GetIn(FirstIn(Get(body, "content")), "text")))

parse_google_text(body) ==
    TrimmedNonEmpty(StrIn(GetIn(FirstIn(GetIn(GetIn(FirstIn(
        Get(body, "candidates")), "content"), "parts")), "text")))

\* the Volcengine arm of parse_stream_delta, given what it reads of the body
volcengine_delta(is_delta_type, delta_str, delta_text, openai_delta) ==
    IF is_delta_type /\ IsSome(NonEmpty(delta_str)) THEN delta_str
    ELSE IF is_delta_type /\ IsSome(NonEmpty(delta_text)) THEN delta_text
    ELSE OrElse(openai_delta, NonEmpty(delta_str))

parse_volcengine_delta(body) ==
    volcengine_delta(
        StrIn(Get(body, "type")) = Some(<<"response.output_text.delta">>),
        StrIn(Get(body, "delta")),
        StrIn(GetIn(Get(body, "delta"), "text")),
        parse_openai_delta_text(body))

parse_stream_delta(provider_type, body) ==
    CASE provider_type \in {"OpenAI", "Glm", "Custom"} ->
             parse_openai_delta_text(body)
      [] provider_type = "Volcengine" -> parse_volcengine_delta(body)
      [] provider_type = "Anthropic" ->
             NonEmpty(StrIn(GetIn(Get(body, "delta"), "text")))
      [] provider_type = "Google" -> parse_google_text(body)

parse_provider_text(provider_type, body) ==
    CASE provider_type \in {"OpenAI", "Glm", "Custom"} ->
             parse_openai_like_text(body)
      [] provider_type = "Anthropic" -> parse_anthropic_text(body)
      [] provider_type = "Google" -> parse_google_text(body)
      [] provider_type = "Volcengine" -> parse_responses_text(body)

----------------------------------------------------------------------------
(* serde_json::from_str, on the JSON documents of the model.  A document   *)
(* is written "{" members "}"; JsonTable gives the value of each member    *)
(* list the model knows.  The members {"a":1} are spelled out; every other *)
(* member list is one run character named after its family and role.      *)
(* Whitespace between the tokens of a document is insignificant, as in     *)
(* JSON (no member list of the table has whitespace of its own outside a   *)
(* string).  Any other text is no JSON: from_str fails on it.              *)

HI == <<"h", "i">>
YO == <<SP, "y", "o">>
OK == <<"o", "k">>

OpenAiDelta(text)    == JObj([choices |-> JArr(<<JObj([delta |->
                            JObj([content |-> JStr(text)])])>>)])
OpenAiFull(text)     == JObj([choices |-> JArr(<<JObj([message |->
                            JObj([content |-> JStr(text)])])>>)])
AnthropicDelta(text) == JObj([type |-> JStr(<<"content_block_delta">>),
                              delta |-> JObj([text |-> JStr(text)])])
AnthropicFull(text)  == JObj([content |-> JArr(<<JObj([text |-> JStr(text)])>>)])
GoogleBody(text)     == JObj([candidates |-> JArr(<<JObj([content |->
                            JObj([parts |-> JArr(<<JObj([text |->
                                JStr(text)])>>)])])>>)])
ResponsesDelta(text) == JObj([type |-> JStr(<<"response.output_text.delta">>),
                              delta |-> JStr(text)])
ResponsesFull(text)  == JObj([output_text |-> JStr(text)])
ResponsesOutput(text) == JObj([output |-> JArr(<<JObj([content |->
                            JArr(<<JObj([text |-> JStr(text)])>>)])>>)])

JsonTable ==
    << [members |-> <<"\"", "a", "\"", ":", "1">>, value |-> JObj([a |-> JNum(1)])],
       [members |-> <<"oD1">>, value |-> OpenAiDelta(HI)],
       [members |-> <<"oD2">>, value |-> OpenAiDelta(YO)],
       [members |-> <<"oF">>,  value |-> OpenAiFull(OK)],
       [members |-> <<"aD1">>, value |-> AnthropicDelta(HI)],
       [members |-> <<"aD2">>, value |-> AnthropicDelta(YO)],
       [members |-> <<"aF">>,  value |-> AnthropicFull(OK)],
       [members |-> <<"gD1">>, value |-> GoogleBody(HI)],
       [members |-> <<"gD2">>, value |-> GoogleBody(YO)],
       [members |-> <<"gF">>,  value |-> GoogleBody(OK)],
       [members |-> <<"vD1">>, value |-> ResponsesDelta(HI)],
       [members |-> <<"vD2">>, value |-> ResponsesDelta(YO)],
       [members |-> <<"vF">>,  value |-> ResponsesFull(OK)] >>

StripWs(s) == SelectSeq(s, LAMBDA c : c \notin WhiteSpace)

\* Ok(value) is Some(value), Err(_) is None
from_str(text) ==
    LET t    == StripWs(text)
        hits == {i \in 1..Len(JsonTable) :
                    t = <<"{">> \o JsonTable[i].members \o <<"}">>}
    IN  IF hits = {} THEN None
        ELSE Some(JsonTable[CHOOSE i \in hits : TRUE].value)

----------------------------------------------------------------------------
(* stream_sse_response: the state of one invocation.                       *)
(*   buffer, emitted_chars  its two locals                                 *)
(*   out      the payloads it has passed to app.emit, in order             *)
(*   done     a [DONE] payload made it return                              *)
(*   frames   history: every payload the two takers have yielded           *)
(*   parsed   history: every payload handed to serde_json::from_str        *)

NewStream ==
    [buffer |-> <<>>, emitted_chars |-> 0, out |-> <<>>, done |-> FALSE,
     frames |-> <<>>, parsed |-> <<>>]

\* variant: a loop that steps over a [DONE] payload and handles the rest
RECURSIVE stepping_over_done(_)
stepping_over_done(payloads) ==
    IF Len(payloads) = 0 THEN <<>>
    ELSE IF Trim(Head(payloads)) = DoneMarker
         THEN stepping_over_done(Tail(payloads))
    ELSE <<Head(payloads)>> \o stepping_over_done(Tail(payloads))

\* the payloads a `for payload in ...` loop handles before a [DONE]
\* payload makes the function return
RECURSIVE before_done(_)
before_done(payloads) ==
    IF Len(payloads) = 0 THEN <<>>
    ELSE IF Trim(Head(payloads)) = DoneMarker THEN <<>>
    ELSE <<Head(payloads)>> \o before_done(Tail(payloads))

has_done(payloads) ==
    \E i \in 1..Len(payloads) : Trim(payloads[i]) = DoneMarker

\* serde_json::from_str(payload.trim()) and parse_stream_delta on Ok
delta_of(provider_type, payload) ==
    AndThen(from_str(Trim(payload)),
            LAMBDA value : parse_stream_delta(provider_type, value))

\* variant: a loop that collects the deltas of its payloads and emits them
\* as one event
RECURSIVE delta_chars(_, _)
delta_chars(provider_type, payloads) ==
    IF Len(payloads) = 0 THEN <<>>
    ELSE Flatten(delta_of(provider_type, Head(payloads)))
         \o delta_chars(provider_type, Tail(payloads))

deltas_batched(provider_type, payloads) ==
    IF Len(delta_chars(provider_type, payloads)) = 0 THEN <<>>
    ELSE <<delta_chars(provider_type, payloads)>>

\* the deltas the loop emits for these payloads, in order
RECURSIVE deltas_of(_, _)
deltas_of(provider_type, payloads) ==
    IF Len(payloads) = 0 THEN <<>>
    ELSE delta_of(provider_type, Head(payloads))
         \o deltas_of(provider_type, Tail(payloads))

\* the state after both loops, given what the takers yielded
after_loops(s, sse_frames, nd, deltas) ==
    [buffer |-> nd.buffer,
     emitted_chars |-> s.emitted_chars + Len(Flatten(deltas)),
     out |-> s.out \o deltas,
     done |-> has_done(sse_frames) \/ has_done(nd.frames),
     frames |-> s.frames \o sse_frames \o nd.frames,
     parsed |-> s.parsed \o before_done(sse_frames) \o before_done(nd.frames)]

\* variant: the NDJSON loop without its `!buffer.contains("data:")` guard
ndjson_pass_unguarded(sse) ==
    IF has_done(sse.frames)
    THEN [frames |-> <<>>, buffer |-> sse.buffer]
    ELSE take_ndjson_lines(sse.buffer)

\* the NDJSON loop runs only if the SSE loop did not return and the rest
\* of the buffer holds no "data:"
ndjson_pass(sse) ==
    IF has_done(sse.frames) \/ Contains(sse.buffer, DataPrefix)
    THEN [frames |-> <<>>, buffer |-> sse.buffer]
    ELSE take_ndjson_lines(sse.buffer)

both_loops(provider_type, s, sse, nd) ==
    after_loops(s, sse.frames, nd,
                deltas_of(provider_type,
                          before_done(sse.frames) \o before_done(nd.frames)))

sse_pass(provider_type, s, sse) ==
    both_loops(provider_type, s, sse, ndjson_pass(sse))

\* one turn of the `while let Some(chunk)` loop
on_chunk(provider_type, s, chunk) ==
    sse_pass(provider_type, s, take_sse_frames(s.buffer \o normalized(chunk)))

\* after the loop: "If nothing was streamed, try parsing the full buffered
\* payload once."
tail_text(provider_type, tail) ==
    IF Len(tail) > 0 /\ tail # DoneMarker
    THEN AndThen(from_str(tail),
                 LAMBDA body : parse_provider_text(provider_type, body))
    ELSE None

\* variant: the whole-buffer text is emitted and left out of the count
emit_tail_uncounted(s, text) ==
    IF s.emitted_chars = 0 /\ IsSome(text)
    THEN [s EXCEPT !.out = Append(@, text[1])]
    ELSE s

emit_tail(s, text) ==
    IF s.emitted_chars = 0 /\ IsSome(text)
    THEN [s EXCEPT !.emitted_chars = Len(text[1]), !.out = Append(@, text[1])]
    ELSE s

at_end(provider_type, s) ==
    emit_tail(s, tail_text(provider_type, Trim(s.buffer)))

----------------------------------------------------------------------------
(* Results.  Ok(v) / Err(e) with the same fields in both, so that any two  *)
(* results compare.  An error message is the sequence of the segments its  *)
(* format! string puts together.                                           *)

Ok(v)      == [ok |-> TRUE, val |-> v, err |-> <<>>]
Err(e)     == [ok |-> FALSE, val |-> <<>>, err |-> e]
OkCount(n) == [ok |-> TRUE, val |-> n, err |-> <<>>]
ErrCount(e) == [ok |-> FALSE, val |-> 0, err |-> e]

\* Result<usize, String>::unwrap_or(0)
unwrap_or_0(r) == IF r.ok THEN r.val ELSE 0

----------------------------------------------------------------------------
(* Failure Classifier *)

\* variant: a classifier without its 404 arm
classify_prefix_without_404(status) ==
    IF status \in {401, 403}
    THEN "Authentication failed. Check API key and permissions."
    ELSE IF status = 429 THEN "Rate limited by provider."
    ELSE IF status >= 500 /\ status <= 599 THEN "Provider server error."
    ELSE "Connection test failed."

\* variant: a classifier whose server-error arm is for 500 alone
classify_prefix_only_500(status) ==
    IF status \in {401, 403}
    THEN "Authentication failed. Check API key and permissions."
    ELSE IF status = 404 THEN "Model or endpoint not found. Check model/base URL."
    ELSE IF status = 429 THEN "Rate limited by provider."
    ELSE IF status = 500 THEN "Provider server error."
    ELSE "Connection test failed."

classify_prefix(status) ==
    IF status \in {401, 403}
    THEN "Authentication failed. Check API key and permissions."
    ELSE IF status = 404 THEN "Model or endpoint not found. Check model/base URL."
    ELSE IF status = 429 THEN "Rate limited by provider."
    ELSE IF status >= 500 /\ status <= 599 THEN "Provider server error."
    ELSE "Connection test failed."

classify_http_failure(status, model, details) ==
    IF Len(details) = 0
    THEN <<classify_prefix(status), " (model: ", model, ", status: ",
           ToString(status), ")">>
    ELSE <<classify_prefix(status), " (model: ", model, ", status: ",
           ToString(status), ", detail: ", details, ")">>

\* StatusCode::is_success
is_success(status) == status >= 200 /\ status <= 299

ExcerptLen == 220

\* chars().take(n)
Take(s, n) == SubSeq(s, 1, IF Len(s) < n THEN Len(s) ELSE n)

\* text.replace('\n', " ").replace('\r', " ").chars().take(220)
response_excerpt(text) ==
    LET compact == [i \in 1..Len(text) |->
                       IF text[i] \in {LF, CR} THEN SP ELSE text[i]]
    IN  Take(compact, ExcerptLen)

----------------------------------------------------------------------------
(* Message Normalizer *)

UserMsg(content) == [role |-> <<"user">>, content |-> content]

UpperLetters ==
    <<"A", "B", "C", "D", "E", "F", "G", "H", "I", "J", "K", "L", "M",
      "N", "O", "P", "Q", "R", "S", "T", "U", "V", "W", "X", "Y", "Z">>

LowerLetters ==
    <<"a", "b", "c", "d", "e", "f", "g", "h", "i", "j", "k", "l", "m",
      "n", "o", "p", "q", "r", "s", "t", "u", "v", "w", "x", "y", "z">>

\* char::to_lowercase on the letters of the model
char_to_lowercase(c) ==
    IF \E i \in 1..Len(UpperLetters) : UpperLetters[i] = c
    THEN LowerLetters[CHOOSE i \in 1..Len(UpperLetters) : UpperLetters[i] = c]
    ELSE c

\* str::to_lowercase, on letters and on the role names of the model
to_lowercase(s) ==
    [i \in 1..Len(s) |->
        CASE s[i] = "User" -> "user"
          [] s[i] = "Assistant" -> "assistant"
          [] OTHER -> char_to_lowercase(s[i])]

KnownRoles == {<<"user">>, <<"assistant">>, <<"system">>}

\* variant: a filter that keeps a message of any role
RECURSIVE filter_history_any_role(_)
filter_history_any_role(ms) ==
    IF Len(ms) = 0 THEN <<>>
    ELSE LET role    == to_lowercase(Trim(Head(ms).role))
             content == Trim(Head(ms).content)
         IN  (IF Len(content) = 0 THEN <<>>
              ELSE <<[role |-> role, content |-> content]>>)
             \o filter_history_any_role(Tail(ms))

RECURSIVE filter_history(_)
filter_history(ms) ==
    IF Len(ms) = 0 THEN <<>>
    ELSE LET role    == to_lowercase(Trim(Head(ms).role))
             content == Trim(Head(ms).content)
         IN  (IF Len(content) = 0 \/ role \notin KnownRoles THEN <<>>
              ELSE <<[role |-> role, content |-> content]>>)
             \o filter_history(Tail(ms))

\* variant: the prompt is appended whether or not the history has a user
\* message
normalize_messages_appending(history, prompt) ==
    LET messages == filter_history(IF IsSome(history) THEN history[1] ELSE <<>>)
    IN  IF Len(Trim(prompt)) = 0 THEN Err(<<"Prompt is empty.">>)
        ELSE Ok(Append(messages, UserMsg(Trim(prompt))))

\* variant: the prompt is appended as it was given
normalize_messages_untrimmed(history, prompt) ==
    LET messages == filter_history(IF IsSome(history) THEN history[1] ELSE <<>>)
        has_user_msg == \E i \in 1..Len(messages) : messages[i].role = <<"user">>
    IN  IF has_user_msg THEN Ok(messages)
        ELSE IF Len(Trim(prompt)) = 0 THEN Err(<<"Prompt is empty.">>)
        ELSE Ok(Append(messages, UserMsg(prompt)))

\* variant: a blank prompt is left out without an error
normalize_messages_lenient(history, prompt) ==
    LET messages == filter_history(IF IsSome(history) THEN history[1] ELSE <<>>)
        has_user_msg == \E i \in 1..Len(messages) : messages[i].role = <<"user">>
    IN  IF has_user_msg \/ Len(Trim(prompt)) = 0 THEN Ok(messages)
        ELSE Ok(Append(messages, UserMsg(Trim(prompt))))

normalize_messages(history, prompt) ==
    LET messages == filter_history(IF IsSome(history) THEN history[1] ELSE <<>>)
        has_user_msg == \E i \in 1..Len(messages) : messages[i].role = <<"user">>
    IN  IF has_user_msg THEN Ok(messages)
        ELSE IF Len(Trim(prompt)) = 0 THEN Err(<<"Prompt is empty.">>)
        ELSE Ok(Append(messages, UserMsg(Trim(prompt))))

----------------------------------------------------------------------------
(* The provider table read through ProvidersRepository.  base_url is an    *)
(* Option; a URL is a sequence of characters, its scheme-host-path part    *)
(* one run character.                                                      *)

\* impl Display for ProviderType
provider_type_to_string(t) ==
    CASE t = "OpenAI" -> <<"o", "p", "e", "n", "a", "i">>
      [] t = "Anthropic" -> <<"a", "n", "t", "h", "r", "o", "p", "i", "c">>
      [] t = "Google" -> <<"g", "o", "o", "g", "l", "e">>
      [] t = "Custom" -> <<"c", "u", "s", "t", "o", "m">>

\* variant: a parser that compares the string as it was given
provider_type_from_str_exact(s) ==
    CASE s = <<"o", "p", "e", "n", "a", "i">> -> Ok("OpenAI")
      [] s = <<"a", "n", "t", "h", "r", "o", "p", "i", "c">> -> Ok("Anthropic")
      [] s \in {<<"g", "o", "o", "g", "l", "e">>, <<"g", "e", "m", "i", "n", "i">>} -> Ok("Google")
      [] s = <<"c", "u", "s", "t", "o", "m">> -> Ok("Custom")
      [] OTHER -> Ok("Custom")

\* impl FromStr for ProviderType
provider_type_from_str(s) ==
    CASE to_lowercase(s) = <<"o", "p", "e", "n", "a", "i">> -> Ok("OpenAI")
      [] to_lowercase(s) = <<"a", "n", "t", "h", "r", "o", "p", "i", "c">> -> Ok("Anthropic")
      [] to_lowercase(s) \in {<<"g", "o", "o", "g", "l", "e">>, <<"g", "e", "m", "i", "n", "i">>} -> Ok("Google")
      [] to_lowercase(s) = <<"c", "u", "s", "t", "o", "m">> -> Ok("Custom")
      [] OTHER -> Ok("Custom")

default_base_url(provider_type) ==
    CASE provider_type = "OpenAI" -> Some(<<"https://api.openai.com/v1">>)
      [] provider_type = "Anthropic" -> Some(<<"https://api.anthropic.com/v1">>)
      [] provider_type = "Google" ->
             Some(<<"https://generativelanguage.googleapis.com/v1beta">>)
      [] provider_type = "Custom" -> None

RECURSIVE trim_end_slashes(_)
trim_end_slashes(s) ==
    IF Len(s) > 0 /\ s[Len(s)] = "/"
    THEN trim_end_slashes(SubSeq(s, 1, Len(s) - 1))
    ELSE s

\* variant: the URL is trimmed of whitespace only
resolve_base_url_keeping_slash(provider) ==
    LET chosen == IF IsSome(provider.base_url) THEN provider.base_url
                  ELSE default_base_url(provider.provider_type)
    IN  IF IsSome(chosen) /\ Len(Trim(chosen[1])) > 0
        THEN Some(Trim(chosen[1]))
        ELSE None

\* variant: a blank base_url gives way to the default of the type
resolve_base_url_defaulting(provider) ==
    LET given  == IF IsSome(provider.base_url)
                     /\ Len(trim_end_slashes(Trim(provider.base_url[1]))) > 0
                  THEN provider.base_url ELSE None
        chosen == IF IsSome(given) THEN given
                  ELSE IF provider.provider_type \in {"Glm", "Volcengine"}
                  THEN None
                  ELSE default_base_url(provider.provider_type)
    IN  IF IsSome(chosen) /\ Len(trim_end_slashes(Trim(chosen[1]))) > 0
        THEN Some(trim_end_slashes(Trim(chosen[1])))
        ELSE None

resolve_base_url(provider) ==
    LET chosen == IF IsSome(provider.base_url) THEN provider.base_url
                  ELSE default_base_url(provider.provider_type)
    IN  IF IsSome(chosen) /\ Len(trim_end_slashes(Trim(chosen[1]))) > 0
        THEN Some(trim_end_slashes(Trim(chosen[1])))
        ELSE None

Row(id, provider_type, base_url, model, api_key) ==
    [id |-> id, name |-> id, provider_type |-> provider_type,
     base_url |-> base_url, model |-> model, api_key |-> api_key]

ProviderRows ==
    << Row("p1", "OpenAI", None, "gpt-4o-mini", <<"k">>),
       Row("p2", "Anthropic", Some(<<"http://proxy", "/">>),
           "claude-3-5-sonnet-latest", <<SP, "k", SP>>),
       Row("p3", "Google", None, "gemini-1.5-pro", <<"k">>),
       Row("p4", "Volcengine", Some(<<"http://ark/v3">>), "doubao", <<"k">>),
       Row("p5", "Custom", None, "m", <<"k">>),
       Row("p6", "Glm", Some(<<SP>>), "glm-4", <<"k">>),
       Row("p7", "OpenAI", None, "gpt-4o-mini", <<SP>>),
       Row("p8", "OpenAI", Some(<<SP>>), "gpt-4o-mini", <<"k">>) >>

\* the Provider of a row (the api_key column is read separately)
ProviderOf(row) ==
    [id |-> row.id, name |-> row.name, provider_type |-> row.provider_type,
     base_url |-> row.base_url, model |-> row.model]

\* ProvidersRepository::get with get_api_key: the row with that id
get_with_key(target) ==
    IF target \in 1..Len(ProviderRows) THEN Some(ProviderRows[target]) ELSE None

\* ProvidersRepository::get_active_with_key: no provider when the active
\* row's key is blank
get_active_with_key(target) ==
    IF target \in 1..Len(ProviderRows)
       /\ Len(Trim(ProviderRows[target].api_key)) > 0
    THEN Some(ProviderRows[target])
    ELSE None

----------------------------------------------------------------------------
(* Vendor Request Builder: what the two request functions check before    *)
(* they send, and the request they send.                                   *)

\* stream_provider_and_emit, up to the request: Some(message) when it
\* returns early
stream_validation(p, key, msgs) ==
    IF Len(Trim(key)) = 0 THEN Some(<<"API key is empty.">>)
    ELSE IF Len(msgs) = 0 THEN Some(<<"Messages are empty.">>)
    ELSE IF IsNone(resolve_base_url(p))
         THEN Some(<<"Base URL is empty. Configure provider base URL.">>)
    ELSE None

\* variant: call_provider_and_get_text without its check of the key
call_validation_without_key(p, key, msgs) ==
    IF Len(msgs) = 0 THEN Some(<<"Messages are empty.">>)
    ELSE IF IsNone(resolve_base_url(p))
         THEN Some(<<"Base URL is empty. Configure provider base URL.">>)
    ELSE None

\* call_provider_and_get_text, up to the request
call_validation(p, key, msgs) ==
    IF Len(Trim(key)) = 0 THEN Some(<<"API key is empty.">>)
    ELSE IF Len(msgs) = 0 THEN Some(<<"Messages are empty.">>)
    ELSE IF IsNone(resolve_base_url(p))
         THEN Some(<<"Base URL is empty. Configure provider base URL.">>)
    ELSE None

endpoint(p, stream) ==
    CASE p.provider_type \in {"OpenAI", "Glm", "Custom"} -> <<"/chat/completions">>
      [] p.provider_type = "Volcengine" -> <<"/responses">>
      [] p.provider_type = "Anthropic" -> <<"/messages">>
      [] p.provider_type = "Google" ->
             <<"/models/", p.model,
               IF stream THEN ":streamGenerateContent" ELSE ":generateContent">>

StreamTimeoutSecs == 120
CallTimeoutSecs == 40

stream_request(p, key, msgs) ==
    [stage |-> "stream", url |-> resolve_base_url(p)[1] \o endpoint(p, TRUE),
     key |-> Trim(key), stream |-> TRUE, messages |-> msgs,
     timeout |-> StreamTimeoutSecs]

call_request(p, key, msgs) ==
    [stage |-> "call", url |-> resolve_base_url(p)[1] \o endpoint(p, FALSE),
     key |-> Trim(key), stream |-> FALSE, messages |-> msgs,
     timeout |-> CallTimeoutSecs]

placeholder_response(p, prompt_text, key) ==
    <<"You asked: '">> \o prompt_text
      \o <<"'\n\nUsing provider: ", p.name, " (model: ", p.model,
           ")\nAPI key configured: ", IF Len(key) = 0 THEN "No" ELSE "Yes",
           "\n\nThis is a placeholder response. Configure your API key in settings to get real AI responses.">>

NoActiveProviderMsg ==
    <<"No active provider configured. Please configure a provider in Settings.">>

IsPlaceholder(payload) ==
    Len(payload) > 0 /\ payload[1] = "You asked: '"

\* call_provider_and_get_text, from the response on: the response is a
\* status and a body text
\* after response.json(): body is the parsed value, json its text
call_outcome(p, status, json, parsed) ==
    IF ~is_success(status)
    THEN Err(classify_http_failure(status, p.model, Take(json, ExcerptLen)))
    ELSE IF IsSome(parsed) THEN Ok(parsed[1])
    ELSE Err(<<"Provider returned no readable text. Response excerpt: ",
               Take(json, ExcerptLen)>>)

call_result(p, status, text) ==
    IF IsNone(from_str(text))
    THEN Err(<<"Failed to parse provider response: ", text>>)
    ELSE call_outcome(p, status, StripWs(text),
                      AndThen(from_str(text),
                              LAMBDA body : parse_provider_text(p.provider_type, body)))

----------------------------------------------------------------------------
(* The vendor side: what a request can be answered with. *)

Doc(members) == <<"{">> \o members \o <<"}">>
NoTextDoc == Doc(<<"\"", "a", "\"", ":", "1">>)

\* the documents a vendor of this family sends: two deltas and a full answer
Family(provider_type) ==
    CASE provider_type \in {"OpenAI", "Glm", "Custom"} ->
             [d1 |-> Doc(<<"oD1">>), d2 |-> Doc(<<"oD2">>), full |-> Doc(<<"oF">>)]
      [] provider_type = "Anthropic" ->
             [d1 |-> Doc(<<"aD1">>), d2 |-> Doc(<<"aD2">>), full |-> Doc(<<"aF">>)]
      [] provider_type = "Google" ->
             [d1 |-> Doc(<<"gD1">>), d2 |-> Doc(<<"gD2">>), full |-> Doc(<<"gF">>)]
      [] provider_type = "Volcengine" ->
             [d1 |-> Doc(<<"vD1">>), d2 |-> Doc(<<"vD2">>), full |-> Doc(<<"vF">>)]

SseEvent(payload) == DataPrefix \o <<SP>> \o payload \o <<LF, LF>>

\* the 2xx bodies answered to a streaming request
StreamBodies(provider_type) ==
    LET f == Family(provider_type)
    IN  { SseEvent(f.d1) \o SseEvent(f.d2) \o SseEvent(DoneMarker),
          SseEvent(NoTextDoc) \o SseEvent(DoneMarker),
          SseEvent(f.d1),
          <<>>,
          f.full,
          f.full \o <<LF>>,
          f.d1 \o <<LF>> \o f.d2 \o <<LF>> }

ErrorStatuses == {401, 404, 429, 500}
TransportErrors == {<<"timeout">>, <<"connect">>}
ErrorBodies == {<<>>, <<"o", "o", "p", "s", LF>>}

\* the bodies answered to a non-streaming request
CallBodies(provider_type) ==
    {Family(provider_type).full, NoTextDoc, <<"o", "o", "p", "s">>}

----------------------------------------------------------------------------
(* State *)

VARIABLES
    entry,      \* the entry point invoked
    target,     \* query_stream: the active row; else the row of provider_id; 0: none
    prompt,     \* argument
    history,    \* argument (Option)
    pc,         \* where the task is: start, stream_wait, streaming, call_wait,
                \* probe_wait, done
    provider,   \* Option: the provider read from the table
    api_key,
    messages,   \* the normalized conversation
    requests,   \* the HTTP requests sent, in order
    body,       \* the 2xx streaming response's body
    pos,        \* how much of it has been read
    stream_status, \* the status of the response to the streaming request, 0: none
    call_status, \* the status of the response to the non-streaming request, 0: none
    dec,        \* stream_sse_response's state
    events,     \* what app.emit has been given, in order
    streamed,   \* Option: what stream_provider_and_emit returned
    called,     \* Option: what call_provider_and_get_text returned
    result,     \* Option: what the entry point returned
    columns,    \* the other tasks in flight: the streams of the chat columns
    unit,       \* a function called on its own: its name, arguments and value
    conn        \* the database run_migrations is given, and where it is

vars == <<entry, target, prompt, history, pc, provider, api_key, messages,
          requests, body, pos, stream_status, call_status, dec, events,
          streamed, called, result, columns, unit, conn>>

\* what a task never writes: its arguments, and the state of other tasks
inputs == <<entry, target, prompt, history, columns, unit, conn>>

Emit(evs, name, payload) == Append(evs, [name |-> name, payload |-> payload])

event_name(p) ==
    IF entry = "query_stream_provider" THEN <<"query:chunk:", p.id>>
    ELSE <<"query:chunk">>

\* the entry point returns
Finish(res, evs, reqs, sr, cr) ==
    /\ pc' = "done"
    /\ result' = Some(res)
    /\ events' = evs
    /\ requests' = reqs
    /\ streamed' = sr
    /\ called' = cr

\* the entry point, from the value of call_provider_and_get_text on
AfterCall(p, key, cr, evs, reqs, sr) ==
    CASE entry = "query_stream" ->
             Finish(Ok(<<>>),
                    Emit(evs, event_name(p),
                         IF cr.ok THEN cr.val
                         ELSE placeholder_response(p, prompt, key)),
                    reqs, sr, Some(cr))
      [] entry = "query_stream_provider" ->
             IF cr.ok
             THEN Finish(Ok(<<>>), Emit(evs, event_name(p), cr.val), reqs, sr, Some(cr))
             ELSE Finish(Err(cr.err), evs, reqs, sr, Some(cr))
      [] entry = "query_provider_once" ->
             Finish(cr, evs, reqs, sr, Some(cr))

\* call_provider_and_get_text is called: it returns early or sends
StartCall(p, key, msgs, evs, reqs, sr) ==
    IF IsSome(call_validation(p, key, msgs))
    THEN AfterCall(p, key, Err(call_validation(p, key, msgs)[1]), evs, reqs, sr)
    ELSE /\ pc' = "call_wait"
         /\ requests' = Append(reqs, call_request(p, key, msgs))
         /\ events' = evs
         /\ streamed' = sr
         /\ called' = None
         /\ result' = None

\* variant: an entry point that returns the streaming attempt's error (`?`
\* in place of `.unwrap_or(0)`)
AfterStream_returning_error(p, key, msgs, sr, evs, reqs) ==
    IF entry = "stream_sse_response"
    THEN Finish(sr, evs, reqs, Some(sr), None)
    ELSE IF ~sr.ok
    THEN Finish(Err(sr.err), evs, reqs, Some(sr), None)
    ELSE IF sr.val > 0
    THEN Finish(Ok(<<>>), evs, reqs, Some(sr), None)
    ELSE StartCall(p, key, msgs, evs, reqs, Some(sr))

\* variant: an entry point that takes any count the streaming attempt
\* returns for an answer (`>= 0` in place of `> 0`)
AfterStream_any_count(p, key, msgs, sr, evs, reqs) ==
    IF entry = "stream_sse_response"
    THEN Finish(sr, evs, reqs, Some(sr), None)
    ELSE IF unwrap_or_0(sr) >= 0
    THEN Finish(Ok(<<>>), evs, reqs, Some(sr), None)
    ELSE StartCall(p, key, msgs, evs, reqs, Some(sr))

\* the entry point, from the value of stream_provider_and_emit on:
\* `.unwrap_or(0)`, `if streamed > 0 { return Ok(()) }`, else the fallback
AfterStream(p, key, msgs, sr, evs, reqs) ==
    IF entry = "stream_sse_response"
    THEN Finish(sr, evs, reqs, Some(sr), None)
    ELSE IF unwrap_or_0(sr) > 0
    THEN Finish(Ok(<<>>), evs, reqs, Some(sr), None)
    ELSE StartCall(p, key, msgs, evs, reqs, Some(sr))

\* stream_provider_and_emit is called: it returns early or sends
StartStream(p, key, msgs, evs, reqs) ==
    IF IsSome(stream_validation(p, key, msgs))
    THEN AfterStream(p, key, msgs,
                     ErrCount(stream_validation(p, key, msgs)[1]), evs, reqs)
    ELSE /\ pc' = "stream_wait"
         /\ requests' = Append(reqs, stream_request(p, key, msgs))
         /\ events' = evs
         /\ streamed' = None
         /\ called' = None
         /\ result' = None

----------------------------------------------------------------------------
(* Inputs *)

Entries == {"query_stream", "query_stream_provider", "query_provider_once"}
Prompts == {<<SP, "q">>, <<SP>>}
Histories ==
    {None, Some(<<[role |-> <<"User", SP>>, content |-> <<"q", "1", SP>>]>>)}

\* the commands: test_provider_connection has an id for its only argument
Commands == Entries \cup {"test_provider_connection"}

Init ==
    /\ entry \in Commands
    /\ target \in 0..Len(ProviderRows)
    /\ prompt \in (IF entry = "test_provider_connection" THEN {<<>>} ELSE Prompts)
    /\ history \in (IF entry \in {"query_stream", "test_provider_connection"}
                    THEN {None} ELSE Histories)
    /\ pc = "start"
    /\ provider = None
    /\ api_key = <<>>
    /\ messages = <<>>
    /\ requests = <<>>
    /\ body = <<>>
    /\ pos = 0
    /\ stream_status = 0
    /\ call_status = 0
    /\ dec = NewStream
    /\ events = <<>>
    /\ streamed = None
    /\ called = None
    /\ result = None
    /\ columns = <<>>
    /\ unit = <<>>
    /\ conn = <<>>

----------------------------------------------------------------------------
(* The entry points, each up to its first wait on the network *)

QueryStream ==
    /\ pc = "start"
    /\ entry = "query_stream"
    /\ LET nm     == normalize_messages(None, prompt)
           active == get_active_with_key(target)
       IN  IF ~nm.ok
           THEN /\ provider' = None
                /\ api_key' = <<>>
                /\ messages' = <<>>
                /\ Finish(Err(nm.err), events, requests, None, None)
           ELSE IF IsNone(active)
           THEN /\ provider' = None
                /\ api_key' = <<>>
                /\ messages' = nm.val
                /\ Finish(Ok(<<>>),
                          Emit(events, <<"query:chunk">>, NoActiveProviderMsg),
                          requests, None, None)
           ELSE /\ provider' = Some(ProviderOf(active[1]))
                /\ api_key' = active[1].api_key
                /\ messages' = nm.val
                /\ StartStream(ProviderOf(active[1]), active[1].api_key,
                               nm.val, events, requests)
    /\ UNCHANGED <<inputs, body, pos, stream_status, call_status, dec>>

QueryStreamProvider ==
    /\ pc = "start"
    /\ entry = "query_stream_provider"
    /\ LET row == get_with_key(target)
           nm  == normalize_messages(history, prompt)
       IN  IF IsNone(row)
           THEN /\ provider' = None
                /\ api_key' = <<>>
                /\ messages' = <<>>
                /\ Finish(Err(<<"Provider not found">>), events, requests,
                          None, None)
           ELSE /\ provider' = Some(ProviderOf(row[1]))
                /\ api_key' = row[1].api_key
                /\ IF ~nm.ok
                   THEN /\ messages' = <<>>
                        /\ Finish(Err(nm.err), events, requests, None, None)
                   ELSE /\ messages' = nm.val
                        /\ StartStream(ProviderOf(row[1]), row[1].api_key,
                                       nm.val, events, requests)
    /\ UNCHANGED <<inputs, body, pos, stream_status, call_status, dec>>

QueryProviderOnce ==
    /\ pc = "start"
    /\ entry = "query_provider_once"
    /\ LET row == get_with_key(target)
           nm  == normalize_messages(history, prompt)
       IN  IF IsNone(row)
           THEN /\ provider' = None
                /\ api_key' = <<>>
                /\ messages' = <<>>
                /\ Finish(Err(<<"Provider not found">>), events, requests,
                          None, None)
           ELSE /\ provider' = Some(ProviderOf(row[1]))
                /\ api_key' = row[1].api_key
                /\ IF ~nm.ok
                   THEN /\ messages' = <<>>
                        /\ Finish(Err(nm.err), events, requests, None, None)
                   ELSE /\ messages' = nm.val
                        /\ StartCall(ProviderOf(row[1]), row[1].api_key,
                                     nm.val, events, requests, None)
    /\ UNCHANGED <<inputs, body, pos, stream_status, call_status, dec>>

----------------------------------------------------------------------------
(* stream_provider_and_emit, from the answer to its request on *)

\* send() fails: no connection, or the 120 s deadline passed
StreamSendFails ==
    /\ pc = "stream_wait"
    /\ \E e \in TransportErrors :
          AfterStream(provider[1], api_key, messages,
                      ErrCount(<<"Network error: ", e>>), events, requests)
    /\ UNCHANGED <<inputs, provider, api_key, messages, body, pos,
                   stream_status, call_status, dec>>

\* a response with a non-2xx status
StreamRefused ==
    /\ pc = "stream_wait"
    /\ \E status \in ErrorStatuses, text \in ErrorBodies :
          /\ stream_status' = status
          /\ AfterStream(provider[1], api_key, messages,
                         ErrCount(classify_http_failure(status, provider[1].model,
                                                        response_excerpt(text))),
                         events, requests)
    /\ UNCHANGED <<inputs, provider, api_key, messages, body, pos,
                   call_status, dec>>

\* a 2xx response: stream_sse_response starts on its body
StreamOpens ==
    /\ pc = "stream_wait"
    /\ \E b \in StreamBodies(provider[1].provider_type) : body' = b
    /\ pos' = 0
    /\ stream_status' = 200
    /\ dec' = NewStream
    /\ pc' = "streaming"
    /\ UNCHANGED <<inputs, provider, api_key, messages, requests, events,
                   call_status, streamed, called, result>>

NewEvents(name, old, new) ==
    [i \in 1..(Len(new.out) - Len(old.out)) |->
        [name |-> name, payload |-> new.out[Len(old.out) + i]]]

\* stream_sse_response goes on from state d, having emitted evs
StreamGoesOn(d, evs) ==
    /\ dec' = d
    /\ IF d.done
       THEN AfterStream(provider[1], api_key, messages,
                        OkCount(d.emitted_chars), evs, requests)
       ELSE /\ events' = evs
            /\ UNCHANGED <<pc, requests, streamed, called, result>>

StreamStep(d) ==
    StreamGoesOn(d, events \o NewEvents(event_name(provider[1]), dec, d))

\* response.chunk() yields the next n bytes of the body
ReadChunk ==
    /\ pc = "streaming"
    /\ \E n \in 1..(Len(body) - pos) :
          /\ pos' = pos + n
          /\ StreamStep(on_chunk(provider[1].provider_type, dec,
                                 SubSeq(body, pos + 1, pos + n)))
    /\ UNCHANGED <<inputs, provider, api_key, messages, body, stream_status,
                   call_status>>

\* response.chunk() fails: the connection broke or the deadline passed
ReadFails ==
    /\ pc = "streaming"
    /\ \E e \in TransportErrors :
          AfterStream(provider[1], api_key, messages,
                      ErrCount(<<"Failed reading SSE stream: ", e>>),
                      events, requests)
    /\ UNCHANGED <<inputs, provider, api_key, messages, body, pos,
                   stream_status, call_status, dec>>

StreamReturns(d) ==
    /\ dec' = d
    /\ AfterStream(provider[1], api_key, messages, OkCount(d.emitted_chars),
                   events \o NewEvents(event_name(provider[1]), dec, d),
                   requests)

\* response.chunk() yields None: the body is exhausted
StreamEnds ==
    /\ pc = "streaming"
    /\ pos = Len(body)
    /\ StreamReturns(at_end(provider[1].provider_type, dec))
    /\ UNCHANGED <<inputs, provider, api_key, messages, body, pos,
                   stream_status, call_status>>

----------------------------------------------------------------------------
(* call_provider_and_get_text, from the answer to its request on *)

\* send() fails: no connection, or the 40 s deadline passed
CallSendFails ==
    /\ pc = "call_wait"
    /\ \E e \in TransportErrors :
          AfterCall(provider[1], api_key, Err(<<"Network error: ", e>>),
                    events, requests, streamed)
    /\ UNCHANGED <<inputs, provider, api_key, messages, body, pos,
                   stream_status, call_status, dec>>

\* the response came, and response.json() fails on reading its body: the
\* connection broke, or the 40 s deadline passed, before the body was whole
CallReadFails ==
    /\ pc = "call_wait"
    /\ \E status \in {200} \cup ErrorStatuses, e \in TransportErrors :
          /\ call_status' = status
          /\ AfterCall(provider[1], api_key,
                       Err(<<"Failed to parse provider response: ", e>>),
                       events, requests, streamed)
    /\ UNCHANGED <<inputs, provider, api_key, messages, body, pos,
                   stream_status, dec>>

CallAnswered ==
    /\ pc = "call_wait"
    /\ \E status \in {200} \cup ErrorStatuses,
          text \in CallBodies(provider[1].provider_type) :
          /\ call_status' = status
          /\ AfterCall(provider[1], api_key,
                       call_result(provider[1], status, text),
                       events, requests, streamed)
    /\ UNCHANGED <<inputs, provider, api_key, messages, body, pos,
                   stream_status, dec>>

----------------------------------------------------------------------------
(* test_provider_connection.  A ConnectionTestResult is modelled without  *)
(* its latency_ms, a reading of the clock that nothing depends on.         *)

ProbeTimeoutSecs == 12

ConnectionTestResult_success(status_code, message) ==
    [success |-> TRUE, message |-> message, status_code |-> status_code]

ConnectionTestResult_failure(status_code, message) ==
    [success |-> FALSE, message |-> message, status_code |-> status_code]

probe_endpoint(p) ==
    CASE p.provider_type \in {"OpenAI", "Custom"} -> <<"/models/", p.model>>
      [] p.provider_type = "Glm" -> <<"/chat/completions">>
      [] p.provider_type = "Volcengine" -> <<"/responses">>
      [] p.provider_type = "Anthropic" -> <<"/messages">>
      [] p.provider_type = "Google" -> <<"/models/", p.model, ":generateContent">>

probe_request(p, key) ==
    [stage |-> "probe", url |-> resolve_base_url(p)[1] \o probe_endpoint(p),
     key |-> Trim(key), stream |-> FALSE,
     messages |-> IF p.provider_type \in {"OpenAI", "Custom"} THEN <<>>
                  ELSE <<UserMsg(<<"ping">>)>>,
     timeout |-> ProbeTimeoutSecs]

\* the result of the probe for a response with this status and body
probe_outcome(p, status, text) ==
    IF is_success(status)
    THEN ConnectionTestResult_success(
             Some(status), <<"Connection successful (model: ", p.model, ").">>)
    ELSE ConnectionTestResult_failure(
             Some(status),
             classify_http_failure(status, p.model, response_excerpt(text)))

\* variant: a probe that returns send()'s error to its caller
probe_send_failed_raising(e) == Err(<<"Network error: ", e>>)

\* `Err(err) => Ok(ConnectionTestResult::failure(None, .., "Network error: .."))`
probe_send_failed(e) ==
    Ok(ConnectionTestResult_failure(None, <<"Network error: ", e>>))

\* variant: a probe that does not look at the key
probe_validation_without_key(p, key) ==
    IF IsNone(resolve_base_url(p))
    THEN Some(<<"Base URL is empty. Set a valid base URL before testing.">>)
    ELSE None

\* the message of the early return, if the probe returns early
probe_validation(p, key) ==
    IF Len(Trim(key)) = 0
    THEN Some(<<"API key is empty. Save API key before testing.">>)
    ELSE IF IsNone(resolve_base_url(p))
    THEN Some(<<"Base URL is empty. Set a valid base URL before testing.">>)
    ELSE None

\* up to the request
TestProviderConnection ==
    /\ pc = "start"
    /\ entry = "test_provider_connection"
    /\ LET row == get_with_key(target)
       IN  IF IsNone(row)
           THEN /\ provider' = None
                /\ api_key' = <<>>
                /\ Finish(Err(<<"Provider not found">>), events, requests,
                          None, None)
           ELSE /\ provider' = Some(ProviderOf(row[1]))
                /\ api_key' = row[1].api_key
                /\ IF IsSome(probe_validation(ProviderOf(row[1]), row[1].api_key))
                   THEN Finish(Ok(ConnectionTestResult_failure(None,
                                   probe_validation(ProviderOf(row[1]),
                                                    row[1].api_key)[1])),
                               events, requests, None, None)
                   ELSE /\ pc' = "probe_wait"
                        /\ requests' = Append(requests,
                               probe_request(ProviderOf(row[1]), row[1].api_key))
                        /\ UNCHANGED <<events, streamed, called, result>>
    /\ UNCHANGED <<inputs, messages, body, pos, stream_status, call_status, dec>>

\* send() fails: no connection, or the 12 s deadline passed
ProbeSendFails ==
    /\ pc = "probe_wait"
    /\ \E e \in TransportErrors :
          Finish(probe_send_failed(e), events, requests, None, None)
    /\ UNCHANGED <<inputs, provider, api_key, messages, body, pos,
                   stream_status, call_status, dec>>

ProbeAnswered ==
    /\ pc = "probe_wait"
    /\ \E status \in {200} \cup ErrorStatuses, text \in ErrorBodies :
          Finish(Ok(probe_outcome(provider[1], status, text)), events,
                 requests, None, None)
    /\ UNCHANGED <<inputs, provider, api_key, messages, body, pos,
                   stream_status, call_status, dec>>

Next ==
    \/ QueryStream
    \/ QueryStreamProvider
    \/ QueryProviderOnce
    \/ StreamSendFails
    \/ StreamRefused
    \/ StreamOpens
    \/ ReadChunk
    \/ ReadFails
    \/ StreamEnds
    \/ CallSendFails
    \/ CallReadFails
    \/ CallAnswered
    \/ TestProviderConnection
    \/ ProbeSendFails
    \/ ProbeAnswered

Spec == Init /\ [][Next]_vars

----------------------------------------------------------------------------
(* stream_sse_response on its own: the function is started on a 2xx        *)
(* response whose body is any sequence of at most MaxParts of the parts    *)
(* below, and is run to its return under every way of cutting the body     *)
(* into chunks.                                                            *)

MaxParts == 3

BodyParts(provider_type) ==
    LET f == Family(provider_type)
    IN  { SseEvent(f.d1),
          DataPrefix \o <<SP>> \o f.d2 \o <<CR, LF>>,
          SseEvent(DoneMarker),
          SseEvent(NoTextDoc),
          f.d2 \o <<LF>> }

DecodeBodies(provider_type) ==
    UNION { { Flatten(parts) : parts \in [1..n -> BodyParts(provider_type)] } :
            n \in 0..MaxParts }

\* the row of an OpenAI-compatible provider
DecodeTargets == {1}

InitDecode ==
    /\ entry = "stream_sse_response"
    /\ target \in DecodeTargets
    /\ prompt = <<"q">>
    /\ history = None
    /\ pc = "streaming"
    /\ provider = Some(ProviderOf(ProviderRows[target]))
    /\ api_key = ProviderRows[target].api_key
    /\ messages = <<UserMsg(<<"q">>)>>
    /\ requests = <<>>
    /\ body \in DecodeBodies(ProviderRows[target].provider_type)
    /\ pos = 0
    /\ stream_status = 200
    /\ call_status = 0
    /\ dec = NewStream
    /\ events = <<>>
    /\ streamed = None
    /\ called = None
    /\ result = None
    /\ columns = <<>>
    /\ unit = <<>>
    /\ conn = <<>>

NextDecode ==
    \/ ReadChunk
    \/ ReadFails
    \/ StreamEnds

SpecDecode == InitDecode /\ [][NextDecode]_vars

----------------------------------------------------------------------------
(* stream_sse_response on a line-delimited body: at most MaxLines lines,   *)
(* none of them with a "data:" in it, each ended by LF.                    *)

MaxLines == 3

NdjsonLines(provider_type) ==
    LET f == Family(provider_type)
    IN  { f.d1, f.d2, <<>>, DoneMarker, <<"[", "1", "]">>, <<":", "x">> }

NdjsonBodies(provider_type) ==
    UNION { { Flatten([i \in 1..n |-> ls[i] \o <<LF>>]) :
                ls \in [1..n -> NdjsonLines(provider_type)] } :
            n \in 0..MaxLines }

InitNdjson ==
    /\ entry = "stream_sse_response"
    /\ target \in DecodeTargets
    /\ prompt = <<"q">>
    /\ history = None
    /\ pc = "streaming"
    /\ provider = Some(ProviderOf(ProviderRows[target]))
    /\ api_key = ProviderRows[target].api_key
    /\ messages = <<UserMsg(<<"q">>)>>
    /\ requests = <<>>
    /\ body \in NdjsonBodies(ProviderRows[target].provider_type)
    /\ pos = 0
    /\ stream_status = 200
    /\ call_status = 0
    /\ dec = NewStream
    /\ events = <<>>
    /\ streamed = None
    /\ called = None
    /\ result = None
    /\ columns = <<>>
    /\ unit = <<>>
    /\ conn = <<>>

SpecNdjson == InitNdjson /\ [][NextDecode]_vars

----------------------------------------------------------------------------
(* The entry points up to normalize_messages and their first request, on   *)
(* histories of at most MaxHistory messages: roles to trim and lowercase,  *)
(* a role outside the three known ones, a user message of blank content.   *)

MaxHistory == 2

HistoryMessages ==
    { [role |-> <<"User", SP>>, content |-> <<"q", "1", SP>>],
      [role |-> <<"assistant">>, content |-> <<SP, "a">>],
      [role |-> <<"system">>, content |-> <<"s">>],
      [role |-> <<"tool">>, content |-> <<"t">>],
      [role |-> <<"user">>, content |-> <<SP>>] }

NormHistories ==
    {None} \cup { Some(h) : h \in UNION { [1..n -> HistoryMessages] :
                                           n \in 0..MaxHistory } }

NormPrompts == {<<SP, "q", SP>>, <<SP>>, <<>>}

\* no such provider, and an OpenAI provider with its key
NormTargets == {0, 1}

InitNormalize ==
    /\ entry \in Entries
    /\ target \in NormTargets
    /\ prompt \in NormPrompts
    /\ history \in (IF entry = "query_stream" THEN {None} ELSE NormHistories)
    /\ pc = "start"
    /\ provider = None
    /\ api_key = <<>>
    /\ messages = <<>>
    /\ requests = <<>>
    /\ body = <<>>
    /\ pos = 0
    /\ stream_status = 0
    /\ call_status = 0
    /\ dec = NewStream
    /\ events = <<>>
    /\ streamed = None
    /\ called = None
    /\ result = None
    /\ columns = <<>>
    /\ unit = <<>>
    /\ conn = <<>>

NextNormalize ==
    \/ QueryStream
    \/ QueryStreamProvider
    \/ QueryProviderOnce

SpecNormalize == InitNormalize /\ [][NextNormalize]_vars

----------------------------------------------------------------------------
(* Several chat columns stream at once: one task of query_stream_provider  *)
(* per column, each in stream_sse_response with a buffer of its own and a  *)
(* response of its own, all emitting through the one AppHandle.  A column  *)
(* is a row of chat_session_columns: its provider_id is any provider, the  *)
(* table has no uniqueness on it.  A body is at most MaxColumnFrames SSE   *)
(* events; a read yields ColumnChunk bytes, fewer than one event, so that  *)
(* a chunk gives at most one event and the order of the emits is the order *)
(* of these steps.                                                         *)

MaxColumnFrames == 2
ColumnChunk == 7
\* two columns of one session
Columns == {1, 2}

\* the rows of two OpenAI-compatible providers
ColumnTargets == {1, 5}

ColumnBodies(provider_type) ==
    LET f == Family(provider_type)
    IN  UNION { { Flatten(parts) :
                    parts \in [1..n -> {SseEvent(f.d1), SseEvent(f.d2)}] } :
                n \in 1..MaxColumnFrames }

Column(t, b) ==
    [target |-> t, body |-> b, pos |-> 0, dec |-> NewStream, ended |-> FALSE]

\* format!("query:chunk:{}", provider.id)
column_event_name(col) == <<"query:chunk:", ProviderRows[col.target].id>>

column_type(col) == ProviderRows[col.target].provider_type

InitColumns ==
    /\ entry = "query_stream_provider"
    /\ target = 0
    /\ prompt = <<"q">>
    /\ history = None
    /\ pc = "columns"
    /\ provider = None
    /\ api_key = <<>>
    /\ messages = <<UserMsg(<<"q">>)>>
    /\ requests = <<>>
    /\ body = <<>>
    /\ pos = 0
    /\ stream_status = 0
    /\ call_status = 0
    /\ dec = NewStream
    /\ events = <<>>
    /\ streamed = None
    /\ called = None
    /\ result = None
    /\ \E ts \in [Columns -> ColumnTargets] :
          /\ ts[1] = 1
          /\ columns \in [Columns -> UNION { { Column(t, b) :
                               b \in ColumnBodies(ProviderRows[t].provider_type) } :
                               t \in ColumnTargets }]
          /\ \A c \in Columns : columns[c].target = ts[c]
    /\ unit = <<>>
    /\ conn = <<>>

\* the task of column c goes on from decoder state d, n bytes further
ColumnGoesOn(c, d, n, over) ==
    /\ columns' = [columns EXCEPT ![c] =
                      [@ EXCEPT !.dec = d, !.pos = @ + n, !.ended = over]]
    /\ events' = events \o NewEvents(column_event_name(columns[c]),
                                     columns[c].dec, d)

ColumnRead(c, n) ==
    ColumnGoesOn(c,
                 on_chunk(column_type(columns[c]), columns[c].dec,
                          SubSeq(columns[c].body, columns[c].pos + 1,
                                 columns[c].pos + n)),
                 n,
                 on_chunk(column_type(columns[c]), columns[c].dec,
                          SubSeq(columns[c].body, columns[c].pos + 1,
                                 columns[c].pos + n)).done)

\* response.chunk() of column c yields the next bytes of its body
ColumnReadChunk(c) ==
    /\ pc = "columns"
    /\ ~columns[c].ended
    /\ columns[c].pos < Len(columns[c].body)
    /\ ColumnRead(c, IF Len(columns[c].body) - columns[c].pos < ColumnChunk
                     THEN Len(columns[c].body) - columns[c].pos
                     ELSE ColumnChunk)
    /\ UNCHANGED <<entry, target, prompt, history, pc, provider, api_key,
                   messages, requests, body, pos, stream_status, call_status,
                   dec, streamed, called, result, unit,
                   conn>>

\* the body of column c is at its end
ColumnEnds(c) ==
    /\ pc = "columns"
    /\ ~columns[c].ended
    /\ columns[c].pos = Len(columns[c].body)
    /\ ColumnGoesOn(c, at_end(column_type(columns[c]), columns[c].dec), 0, TRUE)
    /\ UNCHANGED <<entry, target, prompt, history, pc, provider, api_key,
                   messages, requests, body, pos, stream_status, call_status,
                   dec, streamed, called, result, unit,
                   conn>>

NextColumns ==
    \/ \E c \in Columns : ColumnReadChunk(c)
    \/ \E c \in Columns : ColumnEnds(c)

SpecColumns == InitColumns /\ [][NextColumns]_vars

----------------------------------------------------------------------------
(* The functions called on their own, each on a bounded family of          *)
(* arguments: unit is the call, [fn, args, returned, ret].                 *)

Call(fn, args) == [fn |-> fn, args |-> args, returned |-> FALSE, ret |-> <<>>]

\* the texts a vendor document carries: plain, with a leading blank, blank,
\* empty
UnitTexts == {HI, YO, <<SP>>, <<>>}

FullShapes == {"openai", "anthropic", "google", "responses", "responses_output"}

\* the non-streaming success body of each shape around a text
FullBody(shape, text) ==
    CASE shape = "openai" -> OpenAiFull(text)
      [] shape = "anthropic" -> AnthropicFull(text)
      [] shape = "google" -> GoogleBody(text)
      [] shape = "responses" -> ResponsesFull(text)
      [] shape = "responses_output" -> ResponsesOutput(text)

ParseProviderTextCalls ==
    { Call("parse_provider_text", <<t, shape, text>>) :
        t \in ProviderTypes, shape \in FullShapes, text \in UnitTexts }

\* statuses of every arm of the classifier, and around the 5xx range
UnitStatuses == {200, 400, 401, 403, 404, 429, 499, 500, 503, 599, 600}

ClassifyCalls ==
    { Call("classify_http_failure", <<status, model, details>>) :
        status \in UnitStatuses,
        model \in {"m", "gpt-4o-mini"},
        details \in {<<>>, <<SP>>, <<"o", "o", "p", "s">>} }

\* enum ProviderType
DeclaredTypes == {"OpenAI", "Anthropic", "Google", "Custom"}

\* the strings given to ProviderType::from_str
TypeNames ==
    { <<"o", "p", "e", "n", "a", "i">>, <<"a", "n", "t", "h", "r", "o", "p", "i", "c">>, <<"g", "o", "o", "g", "l", "e">>, <<"c", "u", "s", "t", "o", "m">>,
      <<"A", "N", "T", "H", "R", "O", "P", "I", "C">>, <<"O", "p", "e", "n", "A", "I">>, <<"g", "e", "m", "i", "n", "i">>, <<"G", "e", "m", "i", "n", "i">>,
      <<"u", "n", "k", "n", "o", "w", "n">>, <<"g", "l", "m">>, <<SP, "o", "p", "e", "n", "a", "i">>, <<>> }

TypeCalls ==
    { Call("ProviderType::to_string", <<t>>) : t \in DeclaredTypes }
    \cup { Call("ProviderType::from_str", <<name>>) : name \in TypeNames }

DeltaShapes ==
    {"envelope", "envelope_nested", "nested", "openai", "bare", "other_type",
     "envelope_and_openai", "openai_and_bare", "none"}

OpenAiChoices(text) ==
    JArr(<<JObj([delta |-> JObj([content |-> JStr(text)])])>>)

\* the frames a responses-style stream is given: each shape around a text,
\* and two frames that are in two shapes at once, the second with "ok"
DeltaFrame(shape, text) ==
    CASE shape = "envelope" -> ResponsesDelta(text)
      [] shape = "envelope_nested" ->
             JObj([type |-> JStr(<<"response.output_text.delta">>),
                   delta |-> JObj([text |-> JStr(text)])])
      [] shape = "nested" -> JObj([delta |-> JObj([text |-> JStr(text)])])
      [] shape = "openai" -> OpenAiDelta(text)
      [] shape = "bare" -> JObj([delta |-> JStr(text)])
      [] shape = "other_type" ->
             JObj([type |-> JStr(<<"response.completed">>),
                   delta |-> JStr(text)])
      [] shape = "envelope_and_openai" ->
             JObj([type |-> JStr(<<"response.output_text.delta">>),
                   delta |-> JStr(text), choices |-> OpenAiChoices(OK)])
      [] shape = "openai_and_bare" ->
             JObj([choices |-> OpenAiChoices(text), delta |-> JStr(OK)])
      [] shape = "none" -> JObj([a |-> JNum(1)])

ParseStreamDeltaCalls ==
    { Call("parse_stream_delta", <<"Volcengine", shape, text>>) :
        shape \in DeltaShapes, text \in UnitTexts }

UnitCalls ==
    ParseProviderTextCalls \cup ClassifyCalls \cup TypeCalls
        \cup ParseStreamDeltaCalls

InitUnits ==
    /\ entry = "unit"
    /\ target = 0
    /\ prompt = <<>>
    /\ history = None
    /\ pc = "unit"
    /\ provider = None
    /\ api_key = <<>>
    /\ messages = <<>>
    /\ requests = <<>>
    /\ body = <<>>
    /\ pos = 0
    /\ stream_status = 0
    /\ call_status = 0
    /\ dec = NewStream
    /\ events = <<>>
    /\ streamed = None
    /\ called = None
    /\ result = None
    /\ columns = <<>>
    /\ unit \in UnitCalls
    /\ conn = <<>>

\* the function returns v
Returns(v) ==
    /\ unit' = [unit EXCEPT !.returned = TRUE, !.ret = v]
    /\ UNCHANGED <<entry, target, prompt, history, pc, provider, api_key,
                   messages, requests, body, pos, stream_status, call_status,
                   dec, events, streamed, called, result, columns, conn>>

ParseProviderText ==
    /\ unit.fn = "parse_provider_text"
    /\ ~unit.returned
    /\ Returns(parse_provider_text(unit.args[1],
                                   FullBody(unit.args[2], unit.args[3])))

ClassifyHttpFailure ==
    /\ unit.fn = "classify_http_failure"
    /\ ~unit.returned
    /\ Returns(classify_http_failure(unit.args[1], unit.args[2], unit.args[3]))

ProviderTypeToString ==
    /\ unit.fn = "ProviderType::to_string"
    /\ ~unit.returned
    /\ Returns(provider_type_to_string(unit.args[1]))

ProviderTypeFromStr ==
    /\ unit.fn = "ProviderType::from_str"
    /\ ~unit.returned
    /\ Returns(provider_type_from_str(unit.args[1]))

ParseStreamDelta ==
    /\ unit.fn = "parse_stream_delta"
    /\ ~unit.returned
    /\ Returns(parse_stream_delta(unit.args[1],
                                  DeltaFrame(unit.args[2], unit.args[3])))

NextUnits ==
    \/ ParseProviderText
    \/ ParseStreamDelta
    \/ ClassifyHttpFailure
    \/ ProviderTypeToString
    \/ ProviderTypeFromStr

SpecUnits == InitUnits /\ [][NextUnits]_vars

----------------------------------------------------------------------------
(* The schema migrations, under SpecMigrations: run_migrations on a        *)
(* database whose schema_version table records some version, run again     *)
(* when the database is opened again.  conn is the database and the        *)
(* position of run_migrations in it: table (schema_version exists), rows   *)
(* (the versions in schema_version), applied (the migrations applied, in   *)
(* order, over all runs), run, recorded (the version recorded when this    *)
(* run began), mark (how many had been applied when this run began), pc,   *)
(* current (Option: what get_current_version returned), n (the migration   *)
(* at hand), ret (Option: what this run returned), prev (Option: what the  *)
(* run before returned).  Every call on the database can fail.             *)

CURRENT_VERSION == 8

\* V1::VERSION .. V8::VERSION, in the order run_migrations tries them
Migrations == <<1, 2, 3, 4, 5, 6, 7, 8>>

MaxRuns == 2

\* SELECT version FROM schema_version ORDER BY version DESC LIMIT 1;
\* no row: 0
RecordedVersion(rows) ==
    IF rows = {} THEN 0 ELSE CHOOSE m \in rows : \A k \in rows : k <= m

\* the DbError made of the rusqlite error of the call that failed
DbError_from(op) == <<"SQLite error: ", op>>

\* what get_current_version can return: 0 when the query on sqlite_master
\* fails (unwrap_or(false)) or finds no table; else the greatest version,
\* or the error of the second query
get_current_version(c) ==
    {Ok(0)} \cup
        (IF c.table
         THEN {Ok(RecordedVersion(c.rows)),
               Err(DbError_from("get_current_version"))}
         ELSE {})

\* the first of the blocks k.. of run_migrations whose test
\* current < Vn::VERSION passes; 0: none
NextDue(current, k) ==
    IF \E i \in k..Len(Migrations) : current < Migrations[i]
    THEN CHOOSE i \in k..Len(Migrations) :
            /\ current < Migrations[i]
            /\ \A j \in k..Len(Migrations) : current < Migrations[j] => i <= j
    ELSE 0

\* run_migrations goes on from block k: to the apply of the next block
\* whose test passes, or to Ok(())
GoOn(c, k) ==
    IF NextDue(c.current[1], k) = 0
    THEN [c EXCEPT !.pc = "done", !.n = 0, !.ret = Some(Ok(<<>>))]
    ELSE [c EXCEPT !.pc = "apply", !.n = NextDue(c.current[1], k)]

\* the ? operator on a failed call
Fails(c, op) ==
    [c EXCEPT !.pc = "done", !.ret = Some(Err(DbError_from(op)))]

NewConn(v) ==
    [table |-> v > 0, rows |-> 1..v, applied |-> <<>>, run |-> 1,
     recorded |-> v, mark |-> 0, pc |-> "start", current |-> None, n |-> 0,
     ret |-> None, prev |-> None]

InitMigrations ==
    /\ entry = "run_migrations"
    /\ target = 0
    /\ prompt = <<>>
    /\ history = None
    /\ pc = "migrations"
    /\ provider = None
    /\ api_key = <<>>
    /\ messages = <<>>
    /\ requests = <<>>
    /\ body = <<>>
    /\ pos = 0
    /\ stream_status = 0
    /\ call_status = 0
    /\ dec = NewStream
    /\ events = <<>>
    /\ streamed = None
    /\ called = None
    /\ result = None
    /\ columns = <<>>
    /\ unit = <<>>
    /\ \E v \in 0..CURRENT_VERSION : conn = NewConn(v)

ConnBecomes(c) ==
    /\ conn' = c
    /\ UNCHANGED <<entry, target, prompt, history, pc, provider, api_key,
                   messages, requests, body, pos, stream_status, call_status,
                   dec, events, streamed, called, result, columns, unit>>

\* let current = get_current_version(conn)?;
GetCurrentVersion ==
    /\ conn.pc = "start"
    /\ \E r \in get_current_version(conn) :
          IF r.ok
          THEN ConnBecomes(GoOn([conn EXCEPT !.current = Some(r.val)], 1))
          ELSE ConnBecomes([conn EXCEPT !.pc = "done", !.ret = Some(r)])

\* Vn::apply(conn)?;  V1 creates schema_version
ApplyMigration ==
    /\ conn.pc = "apply"
    /\ \E applies \in BOOLEAN :
          IF applies
          THEN ConnBecomes([conn EXCEPT
                   !.applied = Append(@, Migrations[conn.n]),
                   !.table = @ \/ Migrations[conn.n] = 1,
                   !.pc = "record"])
          ELSE ConnBecomes(Fails(conn, "apply"))

\* set_version(conn, Vn::VERSION)?;  INSERT OR REPLACE on the primary key
SetVersion ==
    /\ conn.pc = "record"
    /\ \E written \in IF conn.table THEN BOOLEAN ELSE {FALSE} :
          IF written
          THEN ConnBecomes(GoOn([conn EXCEPT
                   !.rows = @ \cup {Migrations[conn.n]}], conn.n + 1))
          ELSE ConnBecomes(Fails(conn, "set_version"))

\* the database is opened again: init_db calls run_migrations
RunAgain ==
    /\ conn.pc = "done"
    /\ conn.run < MaxRuns
    /\ ConnBecomes([conn EXCEPT
           !.run = @ + 1,
           !.recorded = RecordedVersion(conn.rows),
           !.mark = Len(conn.applied),
           !.pc = "start", !.current = None, !.n = 0,
           !.prev = conn.ret, !.ret = None])

NextMigrations ==
    \/ GetCurrentVersion
    \/ ApplyMigration
    \/ SetVersion
    \/ RunAgain

SpecMigrations == InitMigrations /\ [][NextMigrations]_vars

----------------------------------------------------------------------------
(* The orchestration properties, under Spec *)

StreamingEntry == entry \in {"query_stream", "query_stream_provider"}

Payloads(evs) == [i \in 1..Len(evs) |-> evs[i].payload]

FallbackRequests == {i \in 1..Len(requests) : requests[i].stage = "call"}

StreamFailed == IsSome(streamed) /\ ~streamed[1].ok

\* C1, as claimed: once the streaming attempt has emitted a delta, no
\* fallback request is sent and no event follows those deltas, also when
\* the body read fails later.
C1_NoFallbackAfterDelta ==
    (StreamingEntry /\ Len(dec.out) > 0) =>
        /\ FallbackRequests = {}
        /\ Payloads(events) = dec.out

\* C2: a streaming attempt whose request was sent and which failed (send
\* error, non-2xx status, or a failed read) is followed by exactly one
\* fallback request and nothing is returned before its answer; the text
\* of a successful fallback is emitted as one event; a failed fallback is
\* not retried, query_stream_provider returns its error and query_stream
\* emits the placeholder.
C2_StreamErrorFallsBackOnce ==
    (StreamingEntry /\ StreamFailed /\ Len(requests) > 0) =>
        /\ Len(requests) = 2
        /\ requests[1].stage = "stream"
        /\ requests[2].stage = "call"
        /\ pc \in {"call_wait", "done"}
        /\ pc = "call_wait" => result = None /\ Payloads(events) = dec.out
        /\ pc = "done" =>
              /\ IsSome(called)
              /\ IF called[1].ok
                 THEN /\ result = Some(Ok(<<>>))
                      /\ Payloads(events) = Append(dec.out, called[1].val)
                 ELSE IF entry = "query_stream_provider"
                 THEN /\ result = Some(Err(called[1].err))
                      /\ Payloads(events) = dec.out
                 ELSE /\ result = Some(Ok(<<>>))
                      /\ Len(events) = Len(dec.out) + 1
                      /\ IsPlaceholder(events[Len(events)].payload)

\* query_stream_provider has returned the error of the fallback that
\* followed a failed streaming attempt
C2_Witness ==
    /\ entry = "query_stream_provider"
    /\ StreamFailed
    /\ Len(requests) = 2
    /\ pc = "done"
    /\ IsSome(called)
    /\ ~called[1].ok
    /\ result = Some(Err(called[1].err))

\* C3, as claimed: after a non-2xx answer to the streaming request the
\* query fails with the classifier's message and no fallback request is
\* issued.
C3_RefusedStreamIsTerminal ==
    (StreamingEntry /\ stream_status \in ErrorStatuses) =>
        /\ FallbackRequests = {}
        /\ pc = "done"
        /\ result = Some(Err(streamed[1].err))

C3_Message(status) ==
    CASE status = 401 -> "Authentication failed. Check API key and permissions."
      [] status = 404 -> "Model or endpoint not found. Check model/base URL."
      [] status = 429 -> "Rate limited by provider."
      [] status = 500 -> "Provider server error."

\* C3, amended: after a non-2xx answer to the streaming request,
\* stream_provider_and_emit has emitted nothing and returns the
\* classifier's message for that status, model and status included; the
\* entry point drops that message and issues exactly one fallback request,
\* whose outcome is the query's: its text as the only event, or its error
\* (query_stream_provider), or the placeholder (query_stream).
C3_RefusedStreamFallsBack ==
    (StreamingEntry /\ stream_status \in ErrorStatuses) =>
        /\ StreamFailed
        /\ streamed[1].err[1] = C3_Message(stream_status)
        /\ streamed[1].err[3] = provider[1].model
        /\ streamed[1].err[5] = ToString(stream_status)
        /\ dec = NewStream
        /\ Cardinality(FallbackRequests) = 1
        /\ pc \in {"call_wait", "done"}
        /\ pc = "call_wait" => result = None /\ events = <<>>
        /\ pc = "done" =>
              /\ IsSome(called)
              /\ IF called[1].ok
                 THEN /\ result = Some(Ok(<<>>))
                      /\ Payloads(events) = <<called[1].val>>
                 ELSE IF entry = "query_stream_provider"
                 THEN result = Some(Err(called[1].err)) /\ events = <<>>
                 ELSE /\ result = Some(Ok(<<>>))
                      /\ Len(events) = 1
                      /\ IsPlaceholder(events[1].payload)

\* a query whose streaming request was answered 404 has ended with the
\* text of its fallback call
C3_Witness ==
    /\ StreamingEntry
    /\ stream_status = 404
    /\ pc = "done"
    /\ IsSome(called)
    /\ called[1].ok
    /\ Len(events) = 1

\* C4: when the streaming attempt on a 2xx response has returned a count
\* of zero (its body exhausted, or ended by [DONE]), exactly one fallback
\* request has been sent, a non-streaming one, and the entry point does
\* not return before it is answered.
C4_EmptyStreamFallsBackOnce ==
    (StreamingEntry /\ streamed = Some(OkCount(0))) =>
        /\ stream_status = 200
        /\ dec.done \/ pos = Len(body)
        /\ Len(requests) = 2
        /\ Cardinality(FallbackRequests) = 1
        /\ ~requests[2].stream
        /\ pc \in {"call_wait", "done"}
        /\ IsSome(result) => IsSome(called)

\* a stream ended by [DONE] with nothing emitted, and the query that
\* followed it with one fallback call has returned
C4_Witness ==
    /\ StreamingEntry
    /\ streamed = Some(OkCount(0))
    /\ dec.done
    /\ pc = "done"
    /\ Len(requests) = 2

C5_Row == ProviderRows[target]
C5_KeyBlank ==
    \A i \in 1..Len(C5_Row.api_key) : C5_Row.api_key[i] \in WhiteSpace
C5_NoBaseUrl == IsNone(resolve_base_url(ProviderOf(C5_Row)))
C5_NoPrompt == ~normalize_messages(history, prompt).ok
C5_LocalFailure ==
    /\ entry \in Entries
    /\ target \in 1..Len(ProviderRows)
    /\ C5_KeyBlank \/ C5_NoBaseUrl \/ C5_NoPrompt

C5_Messages ==
    { <<"API key is empty.">>, <<"Messages are empty.">>,
      <<"Base URL is empty. Configure provider base URL.">>,
      <<"Prompt is empty.">> }

\* C5, as claimed: on a local validation failure no request is sent and
\* every entry point reports the validation message.
C5_ValidationMessageReported ==
    C5_LocalFailure =>
        /\ requests = <<>>
        /\ pc = "done" => ~result[1].ok /\ result[1].err \in C5_Messages

C5_NoNetworkError ==
    /\ IsSome(result) /\ ~result[1].ok => result[1].err[1] # "Network error: "
    /\ \A i \in 1..Len(events) : events[i].payload[1] # "Network error: "

\* C5, amended: on a local validation failure (blank key, unresolvable
\* base URL, or an empty prompt with no user message) no request is ever
\* sent, by the streaming attempt or by the fallback, and no "Network
\* error" is reported.  The empty prompt is returned as the error of every
\* entry point; the other two are returned as the validation message by
\* query_provider_once and query_stream_provider, while query_stream
\* returns Ok and emits the no-active-provider notice (blank key) or the
\* placeholder (no base URL).
C5_LocalFailureSendsNothing ==
    C5_LocalFailure =>
        /\ requests = <<>>
        /\ pc \in {"start", "done"}
        /\ C5_NoNetworkError
        /\ pc = "done" =>
              IF C5_NoPrompt
              THEN /\ result = Some(Err(<<"Prompt is empty.">>))
                   /\ events = <<>>
              ELSE IF entry = "query_stream"
              THEN /\ result = Some(Ok(<<>>))
                   /\ Len(events) = 1
                   /\ IF C5_KeyBlank
                      THEN events[1].payload = NoActiveProviderMsg
                      ELSE IsPlaceholder(events[1].payload)
              ELSE /\ events = <<>>
                   /\ result = Some(Err(IF C5_KeyBlank
                                        THEN <<"API key is empty.">>
                                        ELSE <<"Base URL is empty. Configure provider base URL.">>))

\* query_stream on a provider without a base URL has returned Ok with the
\* placeholder, having sent nothing
C5_Witness ==
    /\ C5_LocalFailure
    /\ entry = "query_stream"
    /\ C5_NoBaseUrl
    /\ ~C5_NoPrompt
    /\ pc = "done"
    /\ result = Some(Ok(<<>>))
    /\ requests = <<>>

----------------------------------------------------------------------------
(* The decoding properties, under SpecDecode (C10: under Spec) *)

StreamedOk == IsSome(streamed) /\ streamed[1].ok

\* the text a frame carries: the two delta documents of the vendor carry
\* "hi" and " yo", anything else carries none
DeltaTexts(frame) ==
    LET f == Family(provider[1].provider_type)
    IN  IF frame = f.d1 THEN <<HI>>
        ELSE IF frame = f.d2 THEN <<YO>>
        ELSE <<>>

ExpectedDeltas(frames) ==
    Flatten([i \in 1..Len(frames) |-> DeltaTexts(frames[i])])

IsDoneFrame(i) == Trim(dec.frames[i]) = DoneMarker

C6_FirstDone ==
    CHOOSE i \in 1..Len(dec.frames) :
        IsDoneFrame(i) /\ \A j \in 1..(i - 1) : ~IsDoneFrame(j)

\* C6: once a [DONE] frame has been decoded the function has returned
\* Ok with the count of what it emitted and reads no further chunk; the
\* frames handed to the parser are exactly those before the first [DONE],
\* and the events are their deltas in order, so that no frame after it is
\* parsed or emitted.
C6_DoneEndsStream ==
    (\E i \in 1..Len(dec.frames) : IsDoneFrame(i)) =>
        /\ dec.done
        /\ pc = "done"
        /\ dec.parsed = SubSeq(dec.frames, 1, C6_FirstDone - 1)
        /\ Payloads(events) = ExpectedDeltas(SubSeq(dec.frames, 1, C6_FirstDone - 1))
        /\ result = Some(OkCount(Len(Flatten(Payloads(events)))))

\* a [DONE] frame ended the stream after a delta, and a frame decoded
\* from the same chunk after it was left alone
C6_Witness ==
    /\ dec.done
    /\ Len(events) >= 1
    /\ Len(dec.frames) > Len(dec.parsed) + 1
    /\ pc = "done"

C7_Whole ==
    LET whole == on_chunk(provider[1].provider_type, NewStream, body)
    IN  IF whole.done THEN whole
        ELSE at_end(provider[1].provider_type, whole)

\* C7, as claimed: however the body was cut into chunks, the frames
\* parsed and the deltas emitted when the function returns are those of
\* the body read as one chunk.
C7_SameAsOneChunk ==
    (pc = "done" /\ StreamedOk) =>
        /\ dec.parsed = C7_Whole.parsed
        /\ dec.out = C7_Whole.out

C8_Body == DataPrefix \o <<SP, "{", "\"", "a", "\"", ":", "1", "}", LF, LF>>

\* C8: while only a part of  data: {"a":1} LF LF  has been read, in any
\* number of chunks, no frame has been yielded and the part is in the
\* buffer; once all of it has been read exactly one frame, {"a":1}, has
\* been yielded and the buffer is empty.
C8_OneFrameHoweverSplit ==
    body = C8_Body =>
        IF pos < Len(body)
        THEN dec.frames = <<>> /\ dec.buffer = SubSeq(body, 1, pos)
        ELSE /\ dec.frames = << <<"{", "\"", "a", "\"", ":", "1", "}">> >>
             /\ dec.buffer = <<>>
             /\ events = <<>>

\* the first part, cut after the first LF, has been read
C8_Witness ==
    /\ body = C8_Body
    /\ pos = Len(body) - 1
    /\ dec.frames = <<>>
    /\ dec.buffer = SubSeq(body, 1, pos)

\* the texts of the delta documents of the body, in the order of the body
C9_BodyTexts ==
    LET f == Family(provider[1].provider_type)
    IN  Flatten([i \in 1..Len(body) |->
                    IF body[i] = f.d1[2] THEN <<HI>>
                    ELSE IF body[i] = f.d2[2] THEN <<YO>>
                    ELSE <<>>])

RECURSIVE IsSubseq(_, _)
IsSubseq(a, b) ==
    IF Len(a) = 0 THEN TRUE
    ELSE IF Len(b) = 0 THEN FALSE
    ELSE IF Head(a) = Head(b) THEN IsSubseq(Tail(a), Tail(b))
    ELSE IsSubseq(a, Tail(b))

\* C9: at every point of a stream the events emitted are, one event per
\* frame and in the order of the frames, the deltas of the frames handled
\* so far (none held back, merged or repeated), and they follow the order
\* in which their documents lie in the body.
C9_EmittedInArrivalOrder ==
    /\ Payloads(events) = dec.out
    /\ dec.out = ExpectedDeltas(dec.parsed)
    /\ IsSubseq(Payloads(events), C9_BodyTexts)

\* an SSE block and an NDJSON line that follows it have both been taken,
\* and their two deltas emitted, while the stream goes on
C9_Witness ==
    /\ pc = "streaming"
    /\ dec.frames = <<Family(provider[1].provider_type).d1,
                      Family(provider[1].provider_type).d2>>
    /\ SubSeq(body, 1, pos) = SseEvent(dec.frames[1]) \o dec.frames[2] \o <<LF>>
    /\ Payloads(events) = <<HI, YO>>

\* C10, as claimed: a 2xx body that is one complete document in the
\* vendor's non-streaming shape, with or without a newline at its end,
\* is emitted as exactly one event, the count returned is that of its
\* text, and no fallback request follows.
C10_WholeDocumentIsEmitted ==
    (StreamingEntry /\ StreamedOk
        /\ body \in {Family(provider[1].provider_type).full,
                     Family(provider[1].provider_type).full \o <<LF>>}) =>
        /\ dec.out = <<OK>>
        /\ streamed[1].val = Len(OK)
        /\ FallbackRequests = {}

----------------------------------------------------------------------------
(* The line-delimited reading, under SpecNdjson *)

\* the complete (LF-ended) lines of a text, in order
RECURSIVE CompleteLines(_)
CompleteLines(text) ==
    IF \A i \in 1..Len(text) : text[i] # LF THEN <<>>
    ELSE LET n == CHOOSE i \in 1..Len(text) :
                      text[i] = LF /\ \A j \in 1..(i - 1) : text[j] # LF
         IN  <<SubSeq(text, 1, n - 1)>> \o CompleteLines(SubSeq(text, n + 1, Len(text)))

LooksLikeFrame(line) ==
    \/ line = DoneMarker
    \/ Len(line) > 0 /\ line[1] \in {"{", "["}

\* the frames of the lines read so far, up to a [DONE] line
RECURSIVE FramesUntilDone(_)
FramesUntilDone(lines) ==
    IF Len(lines) = 0 THEN <<>>
    ELSE IF Head(lines) = DoneMarker THEN <<>>
    ELSE (IF LooksLikeFrame(Head(lines)) THEN <<Head(lines)>> ELSE <<>>)
         \o FramesUntilDone(Tail(lines))

C11_LinesRead == CompleteLines(SubSeq(body, 1, pos))

\* C11, as claimed: of a body without any "data:" line, every complete
\* line read so far that starts with { or [ has been yielded as a frame,
\* once and in order, up to a [DONE] line, which ends the stream; no
\* complete line is left in the buffer.
C11_EveryJsonLineYielded ==
    /\ dec.parsed = FramesUntilDone(C11_LinesRead)
    /\ dec.done = (\E i \in 1..Len(C11_LinesRead) : C11_LinesRead[i] = DoneMarker)
    /\ ~dec.done => \A i \in 1..Len(dec.buffer) : dec.buffer[i] # LF

----------------------------------------------------------------------------
(* The Vendor Response Parser and the Failure Classifier, under Spec *)

IsTrimmedText(t) ==
    /\ Len(t) > 0
    /\ t[1] \notin WhiteSpace
    /\ t[Len(t)] \notin WhiteSpace

\* C12, as claimed: every string the parsers have returned, the deltas of
\* parse_stream_delta and the texts of parse_provider_text (what the
\* stream emitted, what the call returned), is non-empty and has no
\* whitespace at either end.
C12_ParsedTextIsTrimmed ==
    /\ \A i \in 1..Len(dec.out) : IsTrimmedText(dec.out[i])
    /\ IsSome(called) /\ called[1].ok => IsTrimmedText(called[1].val)

\* C13, as claimed: whenever a request was answered with a non-2xx
\* status, the streaming request or the non-streaming one, whatever the
\* body of the answer, the error of that stage is the classifier's
\* message for that status and the provider's model.
C13_Non2xxIsClassified ==
    /\ stream_status \in ErrorStatuses =>
          /\ StreamFailed
          /\ streamed[1].err[1] = C3_Message(stream_status)
          /\ streamed[1].err[3] = provider[1].model
    /\ call_status \in ErrorStatuses =>
          /\ IsSome(called) /\ ~called[1].ok
          /\ called[1].err[1] = C3_Message(call_status)
          /\ called[1].err[3] = provider[1].model

----------------------------------------------------------------------------
(* C14: the placeholder message is an event of query_stream only, emitted  *)
(* only when the streaming attempt delivered no delta and the fallback     *)
(* call failed, and then it is the one event of the run; a run of          *)
(* query_stream that reached the fallback emits an event whatever the      *)
(* fallback returned; query_stream_provider returns the fallback's error   *)
(* and emits no event for it.                                              *)

C14_PlaceholderOnlyAsLastResort ==
    /\ \A i \in 1..Len(events) :
          IsPlaceholder(events[i].payload)
              => /\ entry = "query_stream"
                 /\ dec.out = <<>>
                 /\ IsSome(called) /\ ~called[1].ok
                 /\ Len(events) = 1
    /\ (pc = "done" /\ entry = "query_stream" /\ IsSome(called))
          => Len(events) >= 1
    /\ (pc = "done" /\ entry = "query_stream_provider"
          /\ IsSome(called) /\ ~called[1].ok)
          => result = Some(Err(called[1].err))

----------------------------------------------------------------------------
(* C15: when the deadline of a stage expired, the entry point returns a    *)
(* transport error for it: an error of the streaming attempt or of the     *)
(* fallback call that is an expiry is the error the caller receives, and   *)
(* a probe whose request got no response returns a failure that reads      *)
(* "Network error".                                                        *)

Expiry == <<"timeout">>

\* the stage returned an error made from the expiry of its deadline
DeadlineExpired(r) ==
    /\ IsSome(r)
    /\ ~r[1].ok
    /\ Len(r[1].err) = 2
    /\ r[1].err[2] = Expiry

TransportPrefixes == {"Network error: ", "Failed reading SSE stream: "}

C15_ExpiryIsReturnedAsTransportError ==
    /\ (pc = "done" /\ entry \in Entries
          /\ (DeadlineExpired(streamed) \/ DeadlineExpired(called)))
          => /\ ~result[1].ok
             /\ result[1].err[1] \in TransportPrefixes
             /\ result[1].err[2] = Expiry
    /\ (pc = "done" /\ entry = "test_provider_connection"
          /\ Len(requests) = 1 /\ result[1].ok
          /\ IsNone(result[1].val.status_code))
          => /\ ~result[1].val.success
             /\ result[1].val.message[1] = "Network error: "

----------------------------------------------------------------------------
(* C16: with several columns streaming at once, the events under the       *)
(* event name of a column are the deltas of that column's stream alone, in *)
(* the order of its frames, and the frames decoded for a column are those  *)
(* of the bytes read from its own response, whatever the other columns     *)
(* read in between.                                                        *)

EventsNamed(name) ==
    SelectSeq(events, LAMBDA ev : ev.name = name)

\* the frames of the bytes column c has read, decoded on their own
FramesAlone(c) ==
    on_chunk(column_type(columns[c]), NewStream,
             SubSeq(columns[c].body, 1, columns[c].pos)).frames

ColumnDeltas(c, frames) ==
    LET f == Family(column_type(columns[c]))
    IN  Flatten([i \in 1..Len(frames) |->
                    IF frames[i] = f.d1 THEN <<HI>>
                    ELSE IF frames[i] = f.d2 THEN <<YO>> ELSE <<>>])

C16_OwnFrames ==
    \A c \in Columns :
        /\ columns[c].dec.frames = FramesAlone(c)
        /\ columns[c].dec.out = ColumnDeltas(c, columns[c].dec.frames)

C16_NoCrossTalk ==
    /\ C16_OwnFrames
    /\ \A c \in Columns :
          Payloads(EventsNamed(column_event_name(columns[c])))
              = columns[c].dec.out

----------------------------------------------------------------------------
(* The claims on normalize_messages, read off the state an entry point     *)
(* leaves: messages is the conversation it returned, requests[1].messages  *)
(* what is transmitted.                                                    *)

HistoryOf == IF IsSome(history) THEN history[1] ELSE <<>>

NormalizedRole(m) == to_lowercase(Trim(m.role))

\* the entry point has called normalize_messages
Normalized ==
    /\ pc # "start"
    /\ entry \in Entries
    /\ entry = "query_stream" \/ target \in 1..Len(ProviderRows)

EmptyPrompt == Some(Err(<<"Prompt is empty.">>))

\* the history has a message of role user
C17_HasUserRole ==
    \E i \in 1..Len(HistoryOf) : NormalizedRole(HistoryOf[i]) = <<"user">>

\* the history has a message of role user that the filter retains
C17_HasUserText ==
    \E i \in 1..Len(HistoryOf) :
        /\ NormalizedRole(HistoryOf[i]) = <<"user">>
        /\ Len(Trim(HistoryOf[i].content)) > 0

\* C17 as stated: whenever the history has a message of role user, the
\* prompt is ignored: the conversation is the filtered history and there is
\* no error, whatever the prompt.
C17_PromptIgnoredWithUserRole ==
    (Normalized /\ C17_HasUserRole)
        => /\ result # EmptyPrompt
           /\ messages = filter_history(HistoryOf)

\* C17 amended: whenever the history has a message of role user whose
\* content is not blank, the prompt is ignored: the conversation is the
\* filtered history, it is what the request carries, and there is no error,
\* whatever the prompt.
C17_PromptIgnoredWithUserMessage ==
    (Normalized /\ C17_HasUserText)
        => /\ result # EmptyPrompt
           /\ messages = filter_history(HistoryOf)
           /\ \A i \in 1..Len(requests) : requests[i].messages = messages

C17_Witness ==
    /\ Normalized
    /\ C17_HasUserText
    /\ Len(Trim(prompt)) = 0
    /\ Len(requests) = 1
    /\ messages = filter_history(HistoryOf)

NoHistory == Len(HistoryOf) = 0

\* C18 as stated: for a prompt that is not empty and no history, the
\* conversation is the one message of role user with the trimmed prompt.
C18_NonEmptyPromptAlone ==
    (Normalized /\ NoHistory /\ Len(prompt) > 0)
        => /\ result # EmptyPrompt
           /\ messages = <<UserMsg(Trim(prompt))>>

\* C18 amended: for a prompt that is not blank (not empty once trimmed) and
\* no history, the conversation is the one message of role user with the
\* trimmed prompt.
C18_NonBlankPromptAlone ==
    (Normalized /\ NoHistory /\ Len(Trim(prompt)) > 0)
        => /\ result # EmptyPrompt
           /\ messages = <<UserMsg(Trim(prompt))>>
           /\ \A i \in 1..Len(requests) : requests[i].messages = messages

C18_Witness ==
    /\ Normalized
    /\ history = Some(<<>>)
    /\ Len(Trim(prompt)) > 0
    /\ Len(prompt) > Len(Trim(prompt))
    /\ messages = <<UserMsg(<<"q">>)>>

C19_Expected == ~C17_HasUserText /\ Len(Trim(prompt)) = 0

\* C19: normalize_messages fails with "Prompt is empty." exactly when the
\* history has no retained message of role user and the prompt is blank;
\* the entry point then returns that error with no request built or sent
\* and no event emitted.
C19_EmptyPromptFails ==
    Normalized
        => /\ (result = EmptyPrompt) <=> C19_Expected
           /\ C19_Expected => /\ pc = "done"
                               /\ requests = <<>>
                               /\ events = <<>>

C19_Witness ==
    /\ Normalized
    /\ entry = "query_stream_provider"
    /\ Len(HistoryOf) > 0
    /\ C19_Expected
    /\ result = EmptyPrompt
    /\ requests = <<>>

\* the history with each role and content as the filter rewrites them
CleanedHistory ==
    [i \in 1..Len(HistoryOf) |->
        [role |-> NormalizedRole(HistoryOf[i]),
         content |-> Trim(HistoryOf[i].content)]]

Front(ms) == SubSeq(ms, 1, Len(ms) - 1)

\* C20: a conversation returned by normalize_messages has a message of role
\* user, has only messages of role user, assistant or system with content
\* that is not empty and is trimmed, keeps the retained messages of the
\* history in their order with the message made from the prompt, if any,
\* last, and is transmitted in that order.
C20_ConversationWellFormed ==
    (Normalized /\ result # EmptyPrompt)
        => /\ \E i \in 1..Len(messages) : messages[i].role = <<"user">>
           /\ \A i \in 1..Len(messages) :
                 /\ messages[i].role \in KnownRoles
                 /\ Len(messages[i].content) > 0
                 /\ Trim(messages[i].content) = messages[i].content
           /\ \/ IsSubseq(messages, CleanedHistory)
              \/ /\ messages[Len(messages)] = UserMsg(Trim(prompt))
                 /\ IsSubseq(Front(messages), CleanedHistory)
           /\ \A i \in 1..Len(requests) : requests[i].messages = messages

C20_Witness ==
    /\ Normalized
    /\ Len(HistoryOf) = 2
    /\ Len(messages) = 2
    /\ messages[1].role = <<"assistant">>
    /\ messages[2] = UserMsg(Trim(prompt))
    /\ Len(requests) = 1

----------------------------------------------------------------------------
(* The claims on the functions called on their own, under SpecUnits *)

Returned(fn) == unit.returned /\ unit.fn = fn

\* the non-streaming shapes of the family of a provider type
ShapesOf(provider_type) ==
    CASE provider_type \in {"OpenAI", "Glm", "Custom"} -> {"openai"}
      [] provider_type = "Anthropic" -> {"anthropic"}
      [] provider_type = "Google" -> {"google"}
      [] provider_type = "Volcengine" -> {"responses", "responses_output"}

\* C21 as stated: parse_provider_text on a body of its family's shape
\* returns the embedded text as it is, and on a body of another family's
\* shape returns None.
C21_EmbeddedTextExactly ==
    Returned("parse_provider_text")
        => unit.ret = IF unit.args[2] \in ShapesOf(unit.args[1])
                      THEN Some(unit.args[3]) ELSE None

\* C21 amended: parse_provider_text on a body of its family's shape returns
\* the embedded text trimmed, or None when that text is blank, and on a
\* body of another family's shape returns None.
C21_EmbeddedTextTrimmed ==
    Returned("parse_provider_text")
        => unit.ret = IF /\ unit.args[2] \in ShapesOf(unit.args[1])
                         /\ Len(Trim(unit.args[3])) > 0
                      THEN Some(Trim(unit.args[3])) ELSE None

C21_Witness ==
    /\ Returned("parse_provider_text")
    /\ unit.args = <<"Volcengine", "responses_output", YO>>
    /\ unit.ret = Some(<<"y", "o">>)

C22_Prefix(status) ==
    CASE status \in {401, 403} ->
             "Authentication failed. Check API key and permissions."
      [] status = 404 -> "Model or endpoint not found. Check model/base URL."
      [] status = 429 -> "Rate limited by provider."
      [] status \in 500..599 -> "Provider server error."
      [] OTHER -> "Connection test failed."

\* C22: classify_http_failure gives, for every status, the message of the
\* prefix of that status (401 and 403 authentication, 404 not found, 429
\* rate limited, 5xx server error, else the generic one) with the model
\* name and the status number in it, and with the detail in it exactly
\* when the detail is not empty.
C22_ClassifierIsTotal ==
    Returned("classify_http_failure")
        => /\ unit.ret[1] = C22_Prefix(unit.args[1])
           /\ unit.ret[2] = " (model: "
           /\ unit.ret[3] = unit.args[2]
           /\ unit.ret[4] = ", status: "
           /\ unit.ret[5] = ToString(unit.args[1])
           /\ IF Len(unit.args[3]) = 0
              THEN Len(unit.ret) = 6
              ELSE /\ Len(unit.ret) = 8
                   /\ unit.ret[6] = ", detail: "
                   /\ unit.ret[7] = unit.args[3]

C22_Witness ==
    /\ Returned("classify_http_failure")
    /\ unit.args[1] = 503
    /\ unit.args[3] = <<SP>>
    /\ unit.ret[1] = "Provider server error."
    /\ Len(unit.ret) = 8

----------------------------------------------------------------------------
(* The claims on the connection probe, under Spec *)

Probed == entry = "test_provider_connection" /\ pc = "done"

\* C23: test_provider_connection never returns an Err: whenever the probe
\* did not succeed, what it returns is Ok of a ConnectionTestResult with
\* success false and a message that is not empty.
C23_ProbeNeverRaises ==
    Probed
        => /\ result[1].ok
           /\ ~result[1].val.success => Len(result[1].val.message) > 0

\* the stored row of the probed provider
ProbedRow == ProviderRows[target]

C24_KeyBlank == Len(Trim(ProbedRow.api_key)) = 0

C24_NoBaseUrl == IsNone(resolve_base_url(ProviderOf(ProbedRow)))

\* C24: a probe of a provider whose stored key is empty or blank, or whose
\* base URL does not resolve, sends no request at any time and returns a
\* ConnectionTestResult with success false and no status code.
C24_ProbeWithoutKeyOrUrl ==
    (/\ entry = "test_provider_connection"
     /\ target \in 1..Len(ProviderRows)
     /\ C24_KeyBlank \/ C24_NoBaseUrl)
        => /\ requests = <<>>
           /\ pc \in {"start", "done"}
           /\ pc = "done" => /\ result[1].ok
                              /\ ~result[1].val.success
                              /\ IsNone(result[1].val.status_code)

C24_Witness ==
    /\ Probed
    /\ target \in 1..Len(ProviderRows)
    /\ C24_KeyBlank
    /\ result[1].ok
    /\ result[1].val.message = <<"API key is empty. Save API key before testing.">>
    /\ requests = <<>>

----------------------------------------------------------------------------
(* The claims on the base URL, under Spec *)

BaseUrlRow == ProviderRows[target]

\* the stored base_url, or else the default of the type
C25_Chosen ==
    IF IsSome(BaseUrlRow.base_url) THEN BaseUrlRow.base_url
    ELSE default_base_url(BaseUrlRow.provider_type)

C25_Resolved ==
    IF IsSome(C25_Chosen) THEN trim_end_slashes(Trim(C25_Chosen[1])) ELSE <<>>

C25_Endpoints ==
    { endpoint(ProviderOf(BaseUrlRow), TRUE),
      endpoint(ProviderOf(BaseUrlRow), FALSE) }

BaseUrlEmptyMsg == <<"Base URL is empty. Configure provider base URL.">>

\* a query of a stored provider with a key, and a prompt or history to send
C25_Query ==
    /\ entry \in Entries
    /\ target \in 1..Len(ProviderRows)
    /\ Len(Trim(BaseUrlRow.api_key)) > 0
    /\ normalize_messages(history, prompt).ok

\* C25 as stated: every request goes to the resolved URL, which is not
\* empty and has no "/" at its end; when no URL results, no request is
\* sent and the query fails with the error "Base URL is empty".
C25_NoUrlFailsTheQuery ==
    C25_Query
        => IF Len(C25_Resolved) > 0
           THEN /\ C25_Resolved[Len(C25_Resolved)] # "/"
                /\ \A i \in 1..Len(requests) :
                      /\ StartsWith(requests[i].url, C25_Resolved)
                      /\ Drop(requests[i].url, Len(C25_Resolved))
                             \in C25_Endpoints
           ELSE /\ requests = <<>>
                /\ pc = "done" => result = Some(Err(BaseUrlEmptyMsg))

\* C25 amended: every request of a query goes to the resolved
\* URL (the stored base_url, or else the default of the type, trimmed of
\* whitespace and then of "/" at its end), which is not empty and has no
\* "/" at its end; when no URL results, no request is ever sent and no
\* network error is reported: the streaming attempt and the fallback call
\* fail with "Base URL is empty", which query_provider_once and
\* query_stream_provider return, while query_stream returns Ok and emits
\* the placeholder.
C25_NoUrlSendsNothing ==
    C25_Query
        => IF Len(C25_Resolved) > 0
           THEN /\ C25_Resolved[Len(C25_Resolved)] # "/"
                /\ \A i \in 1..Len(requests) :
                      /\ StartsWith(requests[i].url, C25_Resolved)
                      /\ Drop(requests[i].url, Len(C25_Resolved))
                             \in C25_Endpoints
           ELSE /\ requests = <<>>
                /\ pc \in {"start", "done"}
                /\ pc = "done"
                     => /\ called = Some(Err(BaseUrlEmptyMsg))
                        /\ StreamingEntry
                             => streamed = Some(ErrCount(BaseUrlEmptyMsg))
                        /\ IF entry = "query_stream"
                           THEN /\ result = Some(Ok(<<>>))
                                /\ Len(events) = 1
                                /\ IsPlaceholder(events[1].payload)
                           ELSE /\ result = Some(Err(BaseUrlEmptyMsg))
                                /\ events = <<>>

C25_Witness ==
    /\ C25_Query
    /\ entry = "query_stream_provider"
    /\ Len(C25_Resolved) = 0
    /\ pc = "done"
    /\ result = Some(Err(BaseUrlEmptyMsg))
    /\ requests = <<>>

\* the type a name stands for, whatever the case of its letters
C26_TypeNamed(name) ==
    LET lower == [i \in 1..Len(name) |-> char_to_lowercase(name[i])]
    IN  IF lower = <<"o", "p", "e", "n", "a", "i">> THEN "OpenAI"
        ELSE IF lower = <<"a", "n", "t", "h", "r", "o", "p", "i", "c">> THEN "Anthropic"
        ELSE IF lower = <<"g", "o", "o", "g", "l", "e">> \/ lower = <<"g", "e", "m", "i", "n", "i">> THEN "Google"
        ELSE "Custom"

\* C26: the display form of every ProviderType parses back to that type,
\* and ProviderType::from_str returns Ok for every string: the type whose
\* name the string is in any case of letters, Google for "gemini", and
\* Custom for any other string.
C26_TypeRoundTrips ==
    /\ Returned("ProviderType::to_string")
          => provider_type_from_str(unit.ret) = Ok(unit.args[1])
    /\ Returned("ProviderType::from_str")
          => unit.ret = Ok(C26_TypeNamed(unit.args[1]))

C26_Witness ==
    /\ Returned("ProviderType::from_str")
    /\ unit.args[1] = <<"A", "N", "T", "H", "R", "O", "P", "I", "C">>
    /\ unit.ret = Ok("Anthropic")

\* the text of a frame of a listed shape: its own text, or, when that is
\* empty in a frame of two shapes, the text of the later shape
C27_Text(shape, text) ==
    CASE shape = "none" -> None
      [] shape \in {"envelope_and_openai", "openai_and_bare"} ->
             IF Len(text) > 0 THEN Some(text) ELSE Some(OK)
      [] OTHER -> IF Len(text) > 0 THEN Some(text) ELSE None

\* C27: for the responses-style vendor, parse_stream_delta returns the
\* text of a frame in each listed shape (a string delta in the
\* response.output_text.delta envelope, a nested delta.text, the OpenAI
\* delta shape, a bare string delta), the first shape with a text that is
\* not empty wins, and a frame in none of them gives None.
C27_EveryListedShapeIsRead ==
    Returned("parse_stream_delta")
        => unit.ret = C27_Text(unit.args[2], unit.args[3])

\* what holds of the shapes other than a delta.text outside the envelope
C27_ExceptNested ==
    (Returned("parse_stream_delta") /\ unit.args[2] # "nested")
        => unit.ret = C27_Text(unit.args[2], unit.args[3])

----------------------------------------------------------------------------
(* The count of a streaming attempt, under Spec *)

RECURSIVE SumLen(_)
SumLen(texts) ==
    IF Len(texts) = 0 THEN 0 ELSE Len(Head(texts)) + SumLen(Tail(texts))

\* C28: the count a streaming attempt returns with Ok is the sum of the
\* character counts of the deltas it emitted; it is 0 exactly when it
\* emitted nothing, so that the callers' test streamed > 0 holds exactly
\* when a delta was emitted, and the entry point then returns Ok with
\* those deltas for its events and no fallback request.
C28_CountIsWhatWasEmitted ==
    StreamedOk
        => /\ streamed[1].val = SumLen(dec.out)
           /\ (streamed[1].val = 0) <=> (dec.out = <<>>)
           /\ streamed[1].val > 0
                 => /\ Payloads(events) = dec.out
                    /\ pc = "done"
                    /\ result = Some(Ok(<<>>))
                    /\ FallbackRequests = {}
           /\ streamed[1].val = 0 => Len(events) <= 1

C28_Witness ==
    /\ StreamedOk
    /\ StreamingEntry
    /\ Len(dec.out) = 2
    /\ streamed[1].val = 5
    /\ Payloads(events) = <<HI, YO>>

\* the stored base_url is there and blank, the type has a default URL, and
\* the key is not blank
C29_BlankUrl ==
    /\ target \in 1..Len(ProviderRows)
    /\ IsSome(BaseUrlRow.base_url)
    /\ Len(Trim(BaseUrlRow.base_url[1])) = 0
    /\ BaseUrlRow.provider_type \in DeclaredTypes
    /\ IsSome(default_base_url(BaseUrlRow.provider_type))
    /\ Len(Trim(BaseUrlRow.api_key)) > 0

ProbeBaseUrlEmptyMsg ==
    <<"Base URL is empty. Set a valid base URL before testing.">>

\* C29: a base_url that is stored and blank is not replaced by the default
\* of the type: for such a provider (whose key is not blank) no request is
\* ever sent, the streaming attempt and the non-streaming call each fail
\* with "Base URL is empty", and the probe returns a failure with that
\* error and no status code.
C29_BlankUrlIsNotDefaulted ==
    C29_BlankUrl
        => /\ requests = <<>>
           /\ pc \in {"start", "done"}
           /\ (pc = "done" /\ entry \in Entries
                  /\ normalize_messages(history, prompt).ok)
                 => /\ called = Some(Err(BaseUrlEmptyMsg))
                    /\ StreamingEntry
                         => streamed = Some(ErrCount(BaseUrlEmptyMsg))
           /\ (pc = "done" /\ entry = "test_provider_connection")
                 => result = Some(Ok(ConnectionTestResult_failure(
                                        None, ProbeBaseUrlEmptyMsg)))

C29_Witness ==
    /\ C29_BlankUrl
    /\ Probed
    /\ result[1].ok
    /\ result[1].val.message = ProbeBaseUrlEmptyMsg
    /\ requests = <<>>

----------------------------------------------------------------------------
(* C30, under SpecMigrations *)

\* the migrations this run has applied, in order
C30_Applied == SubSeq(conn.applied, conn.mark + 1, Len(conn.applied))

\* the versions greater than v, ascending
C30_Due(v) == [i \in 1..(CURRENT_VERSION - v) |-> v + i]

C30_IsPrefix(s, t) == Len(s) <= Len(t) /\ s = SubSeq(t, 1, Len(s))

C30_Failed == conn.pc = "done" /\ ~conn.ret[1].ok

C30_Succeeded == conn.pc = "done" /\ conn.ret[1].ok

\* what the claim says of one run, as far as it has gone
C30_OfARun(v, applied) ==
    \* exactly the migrations above v, ascending, each at most once
    /\ C30_IsPrefix(applied, C30_Due(v))
    \* a version is recorded only after its migration succeeded
    /\ \A m \in conn.rows :
          m > v => \E i \in 1..Len(applied) : applied[i] = m
    \* a failure leaves the last successful version recorded
    /\ C30_Failed
          => RecordedVersion(conn.rows)
                = IF applied = <<>> THEN v ELSE applied[Len(applied)]
    \* success leaves CURRENT_VERSION recorded, all of them applied
    /\ C30_Succeeded
          => /\ RecordedVersion(conn.rows) = CURRENT_VERSION
             /\ applied = C30_Due(v)
    \* run again after a success, it applies nothing
    /\ (conn.run > 1 /\ conn.prev[1].ok) => applied = <<>>

\* C30: run_migrations, started with version v recorded (0..CURRENT_VERSION),
\* applies exactly the migrations whose version is greater than v, in
\* ascending order and each at most once, records a version only after that
\* migration succeeded, stops at the first failure with the last successful
\* version recorded, on success leaves CURRENT_VERSION recorded, and run again
\* after a success applies nothing.
C30_RunMigrations == C30_OfARun(conn.recorded, C30_Applied)

\* get_current_version returned the recorded version and no set_version
\* failed in this run
C30_ReadAndWritten ==
    /\ IsSome(conn.current) => conn.current[1] = conn.recorded
    /\ C30_Failed => conn.ret[1].err # DbError_from("set_version")

\* the same holds whenever the version was read as recorded and every
\* set_version succeeded
C30_WhenReadAndWritten ==
    C30_ReadAndWritten => C30_OfARun(conn.recorded, C30_Applied)

\* the version was read as recorded, whatever set_version did: all but the
\* clause on what a failure leaves recorded
C30_WhenRead ==
    (IsSome(conn.current) => conn.current[1] = conn.recorded)
        => /\ C30_IsPrefix(C30_Applied, C30_Due(conn.recorded))
           /\ C30_Succeeded
                 => /\ RecordedVersion(conn.rows) = CURRENT_VERSION
                    /\ C30_Applied = C30_Due(conn.recorded)
           /\ (conn.run > 1 /\ conn.prev[1].ok) => C30_Applied = <<>>
====
